---- MODULE Spec2Model ----
(***************************************************************************)
(* Provider-based extraction of utility-bill fields: the provider registry *)
(* and detector (src/providers/index.js), the ACE and PSE&G rule cascades  *)
(* (src/providers/ace.js, src/providers/pseg.js), the address normalizer   *)
(* (src/utils/addressUtils.js) and the fallback orchestration of           *)
(* extractFromPDF (src/PDFUtilityParser.jsx).                              *)
(*                                                                         *)
(* Text is a sequence of one-character strings, and every regular          *)
(* expression of the source is a sequence of nodes interpreted by a        *)
(* backtracking matcher with the priorities of the JavaScript engine       *)
(* (leftmost start, greedy or lazy quantifiers, ordered alternatives).     *)
(***************************************************************************)
EXTENDS Integers, Sequences, FiniteSets, TLC

(***************************************************************************)
(* Characters                                                              *)
(***************************************************************************)
UpperLetters == <<"A","B","C","D","E","F","G","H","I","J","K","L","M","N","O","P","Q","R","S","T","U","V","W","X","Y","Z">>
LowerLetters == <<"a","b","c","d","e","f","g","h","i","j","k","l","m","n","o","p","q","r","s","t","u","v","w","x","y","z">>
DigitChars == <<"0","1","2","3","4","5","6","7","8","9">>

Range(f) == {f[x] : x \in DOMAIN f}

Upper == Range(UpperLetters)
Lower == Range(LowerLetters)
Letter == Upper \cup Lower
Digit == Range(DigitChars)
Space == {" ", "\n"}
WordChar == Letter \cup Digit \cup {"_"}
Punct == {":", "$", ",", ".", "-", "&", "(", ")", "'", "#"}
AnyChar == WordChar \cup Space \cup Punct

\* String.prototype.toLowerCase / toUpperCase on one character
toLowerCase(c) ==
    IF c \in Upper THEN LowerLetters[CHOOSE x \in 1..26 : UpperLetters[x] = c] ELSE c

toUpperCase(c) ==
    IF c \in Lower THEN UpperLetters[CHOOSE x \in 1..26 : LowerLetters[x] = c] ELSE c

\* a string in lower and in upper case
RECURSIVE LowerCase(_)
LowerCase(str) ==
    IF str = <<>> THEN <<>> ELSE <<toLowerCase(Head(str))>> \o LowerCase(Tail(str))

RECURSIVE UpperCase(_)
UpperCase(str) ==
    IF str = <<>> THEN <<>> ELSE <<toUpperCase(Head(str))>> \o UpperCase(Tail(str))

(***************************************************************************)
(* Regular expressions: nodes                                              *)
(***************************************************************************)
\* hi < 0 stands for an unbounded quantifier
\* a literal of a pattern with the i flag matches in either case
Lit(str) == [k |-> "lit", s |-> LowerCase(str), t |-> UpperCase(str)]
LitCS(str) == [k |-> "lit", s |-> str, t |-> str]
Rep(cls, lo, hi) == [k |-> "rep", cls |-> cls, lo |-> lo, hi |-> hi, greedy |-> TRUE]
Lazy(cls, lo, hi) == [k |-> "rep", cls |-> cls, lo |-> lo, hi |-> hi, greedy |-> FALSE]
Star(cls) == Rep(cls, 0, -1)
Plus(cls) == Rep(cls, 1, -1)
Alt(alts) == [k |-> "alt", alts |-> alts]
Opt(sub) == Alt(<<sub, <<>>>>)
Open(n) == [k |-> "open", n |-> n]
Close(n) == [k |-> "close", n |-> n]
WordB == [k |-> "wordb"]
Look(alts) == [k |-> "look", alts |-> alts]
EndOfText == [k |-> "end"]

\* the source's patterns have at most five capture groups
NoCaps == [g \in 1..5 |-> [b |-> 0, e |-> 0]]
NoMatch == [ok |-> FALSE, b |-> 0, e |-> 0, caps |-> NoCaps]

(***************************************************************************)
(* Regular expressions: matcher                                            *)
(***************************************************************************)
IsWordAt(s, i) == i >= 1 /\ i <= Len(s) /\ s[i] \in WordChar

RECURSIVE LitAt(_, _, _, _)
LitAt(n, s, i, j) ==
    IF j > Len(n.s) THEN TRUE
    ELSE IF i + j - 1 > Len(s) THEN FALSE
    ELSE IF s[i + j - 1] = n.s[j] \/ s[i + j - 1] = n.t[j] THEN LitAt(n, s, i, j + 1)
    ELSE FALSE

Min(S) == CHOOSE x \in S : \A y \in S : x <= y
Max(S) == CHOOSE x \in S : \A y \in S : x >= y

\* number of consecutive characters of cls from position i, at most hi
\* (hi < 0: no limit)
Run(cls, s, i, hi) ==
    LET lim == IF hi >= 0 /\ i + hi - 1 < Len(s) THEN i + hi - 1 ELSE Len(s)
        stops == {x \in i + 2..lim : s[x] \notin cls}
    IN IF i > lim \/ s[i] \notin cls THEN 0
       ELSE IF i + 1 > lim \/ s[i + 1] \notin cls THEN 1
       ELSE IF stops = {} THEN lim + 1 - i
       ELSE Min(stops) - i

RECURSIVE MatchFrom(_, _, _, _)
RECURSIVE TryAlts(_, _, _, _, _, _)

MatchFrom(re, s, i, caps) ==
    IF re = <<>> THEN [ok |-> TRUE, b |-> 0, e |-> i, caps |-> caps]
    ELSE LET n == Head(re)
             rest == Tail(re)
         IN CASE n.k = "lit" ->
                   IF LitAt(n, s, i, 1)
                   THEN MatchFrom(rest, s, i + Len(n.s), caps)
                   ELSE NoMatch
              [] n.k = "rep" ->
                   LET m == Run(n.cls, s, i, n.hi)
                   IN IF m < n.lo THEN NoMatch
                      ELSE \* the preferred count first, then the others in order
                           LET first == IF n.greedy THEN m ELSE n.lo
                               r == MatchFrom(rest, s, i + first, caps)
                               fits == {c \in n.lo..m :
                                          c # first /\ MatchFrom(rest, s, i + c, caps).ok}
                           IN IF r.ok THEN r
                              ELSE IF fits = {} THEN NoMatch
                              ELSE MatchFrom(rest, s, i + (IF n.greedy THEN Max(fits)
                                                           ELSE Min(fits)), caps)
              [] n.k = "alt" -> TryAlts(n.alts, 1, rest, s, i, caps)
              [] n.k = "open" ->
                   MatchFrom(rest, s, i, [caps EXCEPT ![n.n] = [b |-> i, e |-> i]])
              [] n.k = "close" ->
                   MatchFrom(rest, s, i, [caps EXCEPT ![n.n].e = i])
              [] n.k = "wordb" ->
                   IF IsWordAt(s, i - 1) # IsWordAt(s, i)
                   THEN MatchFrom(rest, s, i, caps)
                   ELSE NoMatch
              [] n.k = "look" ->
                   IF TryAlts(n.alts, 1, <<>>, s, i, caps).ok
                   THEN MatchFrom(rest, s, i, caps)
                   ELSE NoMatch
              [] n.k = "end" ->
                   IF i = Len(s) + 1 THEN MatchFrom(rest, s, i, caps) ELSE NoMatch

TryAlts(alts, j, rest, s, i, caps) ==
    IF j > Len(alts) THEN NoMatch
    ELSE LET r == MatchFrom(alts[j] \o rest, s, i, caps)
         IN IF r.ok THEN r ELSE TryAlts(alts, j + 1, rest, s, i, caps)

\* the match of the pattern that begins at position b
MatchAt(re, s, b) == [MatchFrom(re, s, b, NoCaps) EXCEPT !.b = b]

\* the leftmost of the positions where the pattern matches
Leftmost(re, s, starts) == IF starts = {} THEN NoMatch ELSE MatchAt(re, s, Min(starts))

\* leftmost match at or after position i (RegExp exec with lastIndex); only a
\* position whose character can begin the pattern's leading literal is tried
SearchFrom(re, s, i) ==
    Leftmost(re, s, {b \in i..Len(s) + 1 :
                       /\ re[1].k = "lit" =>
                              b <= Len(s) /\ (s[b] = re[1].s[1] \/ s[b] = re[1].t[1])
                       /\ MatchFrom(re, s, b, NoCaps).ok})

\* String.prototype.match without the g flag; RegExp.prototype.test
Search(re, s) == SearchFrom(re, s, 1)
Test(re, s) == Search(re, s).ok

\* match[n] and match[0]
Group(s, m, n) == SubSeq(s, m.caps[n].b, m.caps[n].e - 1)
Whole(s, m) == SubSeq(s, m.b, m.e - 1)

(***************************************************************************)
(* String operations                                                       *)
(***************************************************************************)
\* a replacement is a sequence of parts: a literal, or capture group g
\* (0 is the whole match), upper-cased when up
RLit(str) == [lit |-> TRUE, s |-> str, g |-> 0, up |-> FALSE]
RGroup(n) == [lit |-> FALSE, s |-> <<>>, g |-> n, up |-> FALSE]
RUpper(n) == [lit |-> FALSE, s |-> <<>>, g |-> n, up |-> TRUE]

RECURSIVE Expand(_, _, _, _)
Expand(repl, j, s, m) ==
    IF j > Len(repl) THEN <<>>
    ELSE LET p == repl[j]
             t == IF p.lit THEN p.s
                  ELSE IF p.g = 0 THEN Whole(s, m) ELSE Group(s, m, p.g)
         IN (IF p.up THEN UpperCase(t) ELSE t)
            \o Expand(repl, j + 1, s, m)

\* String.prototype.replace with a g-flagged pattern
RECURSIVE ReplaceFrom(_, _, _, _)

\* the text from position i on with the match m and all later ones replaced; an
\* empty match advances by one character
ReplaceMatch(re, s, i, repl, m) ==
    IF ~m.ok THEN SubSeq(s, i, Len(s))
    ELSE SubSeq(s, i, m.b - 1) \o Expand(repl, 1, s, m) \o
         (IF m.e > m.b THEN ReplaceFrom(re, s, m.e, repl)
          ELSE IF m.b > Len(s) THEN <<>>
          ELSE <<s[m.b]>> \o ReplaceFrom(re, s, m.b + 1, repl))

ReplaceFrom(re, s, i, repl) == ReplaceMatch(re, s, i, repl, SearchFrom(re, s, i))

ReplaceAll(re, s, repl) == ReplaceFrom(re, s, 1, repl)

\* String.prototype.replace with a pattern without the g flag
ReplaceOne(s, repl, m) ==
    IF ~m.ok THEN s
    ELSE SubSeq(s, 1, m.b - 1) \o Expand(repl, 1, s, m) \o SubSeq(s, m.e, Len(s))

ReplaceFirst(re, s, repl) == ReplaceOne(s, repl, Search(re, s))

RECURSIVE trimStart(_)
trimStart(s) == IF s # <<>> /\ Head(s) \in Space THEN trimStart(Tail(s)) ELSE s

RECURSIVE trimEnd(_)
trimEnd(s) ==
    IF s # <<>> /\ s[Len(s)] \in Space THEN trimEnd(SubSeq(s, 1, Len(s) - 1)) ELSE s

trim(s) == trimEnd(trimStart(s))

\* s.replace(/\s+/g, ' ') and s.replace(/\s+/g, '')
CollapseWhitespace(s) == ReplaceAll(<<Plus(Space)>>, s, <<RLit(<<" ">>)>>)
RemoveWhitespace(s) == ReplaceAll(<<Plus(Space)>>, s, <<>>)
\* the capture as it stands
KeepCommas(s) == s

\* s.replace(/,/g, '')
RemoveCommas(s) == ReplaceAll(<<LitCS(<<",">>)>>, s, <<>>)

(***************************************************************************)
(* JavaScript values: a field is null, undefined or a string               *)
(***************************************************************************)
NULL == <<"null">>
UNDEFINED == <<"undefined">>
FalsyUnlessEmpty(v) == v \in {NULL, UNDEFINED}
Falsy(v) == v \in {NULL, UNDEFINED, <<>>}
Truthy(v) == ~Falsy(v)

\* what a call throws when it calls what is not a function or reads a
\* property of undefined
TypeError == <<"T","y","p","e","E","r","r","o","r">>
\* addLog(...) can be called
Callable(f) == f \notin {NULL, UNDEFINED}

\* what the caller of an extractData that threw has in hand
Thrown ==
    [ serviceAddress |-> TypeError, accountNumber |-> TypeError, electricPodId |-> TypeError,
      gasPodId |-> TypeError, gasSupplyCharges |-> TypeError,
      electricSupplyCharges |-> TypeError, totalUsageKwh |-> TypeError ]
Threw(data) == data = Thrown

\* the first page read whatever the length of the page list
HasFirstPageAlways(pages) == TRUE

\* if (pages.length > 0) { const page1Text = pages[0].text; ... }
HasFirstPage(pages) == Len(pages) > 0

\* pages[0].text is read and there is no first page
FirstPageThrows(pages) == HasFirstPage(pages) /\ Len(pages) = 0

(***************************************************************************)
(* Address normalization                                                   *)
(***************************************************************************)
UpperWord(str) == <<WordB, LitCS(str), WordB>>

\* "N J" -> "NJ"
FixStateCodes(address) ==
    ReplaceAll(<<WordB, Open(1), Rep(Upper, 1, 1), Close(1), Plus(Space),
                 Open(2), Rep(Upper, 1, 1), Close(2), WordB>>,
               address, <<RGroup(1), RGroup(2)>>)

KeepZipCodes(address) == address

\* "07302- 6475" -> "07302-6475"
FixZipCodes(address) ==
    ReplaceAll(<<Open(1), Rep(Digit, 5, 5), Close(1), Star(Space), LitCS(<<"-">>),
                 Star(Space), Open(2), Rep(Digit, 4, 4), Close(2)>>,
               address, <<RGroup(1), RLit(<<"-">>), RGroup(2)>>)

SpaceFirstDigitLetter(address) ==
    ReplaceFirst(<<Open(1), Rep(Digit, 1, 1), Close(1), Open(2), Rep(Letter, 1, 1), Close(2)>>,
                 address, <<RGroup(1), RLit(<<" ">>), RGroup(2)>>)

\* a space between a digit and a letter, then between a letter and a digit
SpaceDigitLetter(address) ==
    ReplaceAll(<<Open(1), Rep(Digit, 1, 1), Close(1), Open(2), Rep(Letter, 1, 1), Close(2)>>,
               address, <<RGroup(1), RLit(<<" ">>), RGroup(2)>>)

KeepLetterDigit(address) == address

SpaceLetterDigit(address) ==
    ReplaceAll(<<Open(1), Rep(Letter, 1, 1), Close(1), Open(2), Rep(Digit, 1, 1), Close(2)>>,
               address, <<RGroup(1), RLit(<<" ">>), RGroup(2)>>)

NormalizeWhitespace(address) == trim(CollapseWhitespace(address))

TitleCase(address) ==
    ReplaceAll(<<WordB, Rep(WordChar, 1, 1)>>, LowerCase(address), <<RUpper(0)>>)

\* the abbreviations that stay uppercase: Nj, Ny, Pa, Ct, Ma in this order
Abbreviations == <<<<"N","j">>, <<"N","y">>, <<"P","a">>, <<"C","t">>, <<"M","a">>>>

RECURSIVE FixAbbreviations(_, _)
FixAbbreviations(address, j) ==
    IF j > Len(Abbreviations) THEN address
    ELSE FixAbbreviations(ReplaceAll(UpperWord(Abbreviations[j]), address,
                                     <<RLit(UpperCase(Abbreviations[j]))>>), j + 1)

KeepDirections(address) == address

\* street directions N, S, E, W, NE, NW, SE, SW
FixDirections(address) ==
    ReplaceAll(<<WordB, Alt(<< <<LitCS(<<"N">>)>>, <<LitCS(<<"S">>)>>, <<LitCS(<<"E">>)>>,
                              <<LitCS(<<"W">>)>>, <<LitCS(<<"N","e">>)>>, <<LitCS(<<"N","w">>)>>,
                              <<LitCS(<<"S","e">>)>>, <<LitCS(<<"S","w">>)>> >>), WordB>>,
               address, <<RUpper(0)>>)

normalizeAddress(address) ==
    IF Falsy(address) THEN NULL
    ELSE FixDirections(FixAbbreviations(TitleCase(NormalizeWhitespace(
             SpaceLetterDigit(SpaceDigitLetter(FixZipCodes(FixStateCodes(address)))))), 1))

(***************************************************************************)
(* Shared pattern pieces                                                   *)
(***************************************************************************)
\* \$?([\d,]+\.\d{2}) as capture group 1
Amount == <<Rep({"$"}, 0, 1), Open(1), Plus(Digit \cup {","}), LitCS(<<".">>),
            Rep(Digit, 2, 2), Close(1)>>

\* the words separated by \s+ and followed by \s+
RECURSIVE Words(_)
Words(ws) == IF ws = <<>> THEN <<>> ELSE <<Lit(Head(ws)), Plus(Space)>> \o Words(Tail(ws))

\* (\d+) as capture group n
Number(n) == <<Open(n), Plus(Digit), Close(n)>>
\* (\d{6}) as capture group n
SixDigits(n) == <<Open(n), Rep(Digit, 6, 6), Close(n)>>
\* ([\d,]+) as capture group 1
Quantity == <<Open(1), Plus(Digit \cup {","}), Close(1)>>

\* a cascade entry: the pattern and the number of its capture groups
Rule(re, groups) == [re |-> re, groups |-> groups]

\* the loop without its break: the last rule that matches wins
RECURSIVE CascadeNoBreak(_, _, _)
CascadeNoBreak(rules, text, j) ==
    IF j > Len(rules) THEN [rule |-> 0, m |-> NoMatch]
    ELSE LET m == Search(rules[j].re, text)
             later == CascadeNoBreak(rules, text, j + 1)
         IN IF later.rule > 0 THEN later
            ELSE IF m.ok THEN [rule |-> j, m |-> m]
            ELSE later

\* for (const pattern of patterns) { match = text.match(pattern); if (match) {...; break;} }
\* yields the index of the rule that fired and its match, index 0 when none did
RECURSIVE Cascade(_, _, _)
Cascade(rules, text, j) ==
    IF j > Len(rules) THEN [rule |-> 0, m |-> NoMatch]
    ELSE LET m == Search(rules[j].re, text)
         IN IF m.ok THEN [rule |-> j, m |-> m] ELSE Cascade(rules, text, j + 1)

(***************************************************************************)
(* ACE provider                                                            *)
(***************************************************************************)
aceId == <<"a","c","e">>
aceName == <<"A","C","E">>
aceDetectPatterns ==
    << <<WordB, Lit(<<"A","C","E">>), WordB>>,
       <<Lit(<<"A","t","l","a","n","t","i","c">>), Star(Space), Lit(<<"C","i","t","y">>), Star(Space), Lit(<<"E","l","e","c","t","r","i","c">>)>> >>

ACE_GAS_SENTINEL == <<"A","C","E"," ","D","o","e","s","n","'","t"," ","S","u","p","p","l","y"," ","G","a","s">>

\* /Account\s*number\s*:\s*([\d\s]+)/i
aceAccountPattern ==
    <<Lit(<<"A","c","c","o","u","n","t">>), Star(Space), Lit(<<"n","u","m","b","e","r">>), Star(Space), Lit(<<":">>), Star(Space),
      Open(1), Plus(Digit \cup Space), Close(1)>>

\* /Your\s*service\s*address\s*:\s*(.+?)(?=\s*Bill|$)/is
aceAddressPattern ==
    <<Lit(<<"Y","o","u","r">>), Star(Space), Lit(<<"s","e","r","v","i","c","e">>), Star(Space), Lit(<<"a","d","d","r","e","s","s">>), Star(Space),
      Lit(<<":">>), Star(Space), Open(1), Lazy(AnyChar, 1, -1), Close(1),
      Look(<< <<Star(Space), Lit(<<"B","i","l","l">>)>>, <<EndOfText>> >>)>>

aceElectricPatterns ==
    << Rule(Words(<<<<"T","o","t","a","l">>, <<"E","l","e","c","t","r","i","c">>, <<"S","u","p","p","l","y">>, <<"C","h","a","r","g","e","s">>>>) \o Amount, 1),
       Rule(Words(<<<<"N","e","w">>, <<"X","O","O","M">>, <<"E","n","e","r","g","y">>, <<"N","J">>, <<"s","u","p","p","l","y">>, <<"c","h","a","r","g","e","s">>>>) \o Amount, 1),
       Rule(Words(<<<<"X","O","O","M">>, <<"E","n","e","r","g","y">>, <<"N","J">>, <<"e","l","e","c","t","r","i","c">>, <<"c","h","a","r","g","e","s">>>>) \o Amount, 1),
       Rule(<<Opt(Words(<<<<"N","e","w">>>>))>> \o Words(<<<<"e","l","e","c","t","r","i","c">>, <<"s","u","p","p","l","y">>, <<"c","h","a","r","g","e","s">>>>) \o Amount, 1),
       Rule(Words(<<<<"s","u","p","p","l","y">>, <<"c","h","a","r","g","e","s">>>>) \o Amount, 1) >>

aceKwhPatterns ==
    << \* /Use\s*\(kWh\)[\s\S]*?(\d{6})[\s\S]*?(\d{6})\s+(\d+)\s+(\d+)\s+(\d+)/i
       Rule(<<Lit(<<"U","s","e">>), Star(Space), Lit(<<"(","k","W","h",")">>), Lazy(AnyChar, 0, -1)>> \o SixDigits(1)
            \o <<Lazy(AnyChar, 0, -1)>> \o SixDigits(2) \o <<Plus(Space)>> \o Number(3)
            \o <<Plus(Space)>> \o Number(4) \o <<Plus(Space)>> \o Number(5), 5),
       \* /Difference\s+Multiplier\s+Total\s+Use[\s\S]{0,200}?(\d+)\s+(\d+)\s+(\d+)/i
       Rule(Words(<<<<"D","i","f","f","e","r","e","n","c","e">>, <<"M","u","l","t","i","p","l","i","e","r">>, <<"T","o","t","a","l">>>>) \o <<Lit(<<"U","s","e">>), Lazy(AnyChar, 0, 200)>>
            \o Number(1) \o <<Plus(Space)>> \o Number(2) \o <<Plus(Space)>> \o Number(3), 3),
       \* /(\d{6})\s+(\d+)\s+(\d+)\s+(\d+)/
       Rule(SixDigits(1) \o <<Plus(Space)>> \o Number(2) \o <<Plus(Space)>> \o Number(3)
            \o <<Plus(Space)>> \o Number(4), 4),
       \* /Total\s+Use\s+(\d+)/i
       Rule(Words(<<<<"T","o","t","a","l">>, <<"U","s","e">>>>) \o Number(1), 1) >>

\* the sentinel assigned only inside the first-page block
aceGasOnFirstPage(pages) == IF Len(pages) > 0 THEN ACE_GAS_SENTINEL ELSE NULL

\* let gasSupplyCharges = "ACE Doesn't Supply Gas", never reassigned
aceGasSupplyCharges(pages) == ACE_GAS_SENTINEL

\* pages is the sequence of the pages' text; a field left out of the
\* returned object reads as undefined
aceFields(fullText, pages) ==
    LET page1Text == pages[1]
        accountMatch == Search(aceAccountPattern, page1Text)
        addressMatch == Search(aceAddressPattern, page1Text)
        electric == Cascade(aceElectricPatterns, fullText, 1)
        kwh == Cascade(aceKwhPatterns, fullText, 1)
    IN [ serviceAddress |->
             IF HasFirstPage(pages) /\ addressMatch.ok
             THEN normalizeAddress(trim(Group(page1Text, addressMatch, 1)))
             ELSE NULL,
         accountNumber |->
             IF HasFirstPage(pages) /\ accountMatch.ok
             THEN RemoveWhitespace(Group(page1Text, accountMatch, 1))
             ELSE NULL,
         electricPodId |-> UNDEFINED,
         gasPodId |-> UNDEFINED,
         gasSupplyCharges |-> aceGasSupplyCharges(pages),
         electricSupplyCharges |->
             IF electric.rule > 0 THEN RemoveCommas(Group(fullText, electric.m, 1)) ELSE NULL,
         \* match[match.length - 1]: the last capture group
         totalUsageKwh |->
             IF kwh.rule > 0
             THEN Group(fullText, kwh.m, aceKwhPatterns[kwh.rule].groups)
             ELSE NULL ]

\* extractData: (fullText, pages, addLog, normalizeAddress) => { ... }; the
\* results are reported through addLog before they are returned
aceExtractData(fullText, pages, addLog) ==
    IF FirstPageThrows(pages) \/ ~Callable(addLog) THEN Thrown
    ELSE aceFields(fullText, pages)

(***************************************************************************)
(* PSE&G provider                                                          *)
(***************************************************************************)
psegId == <<"p","s","e","g">>
psegName == <<"P","S","E","&","G">>
psegDetectPatterns ==
    << <<WordB, Lit(<<"P","S","E","G">>), WordB>>,
       <<Lit(<<"P","u","b","l","i","c">>), Star(Space), Lit(<<"S","e","r","v","i","c","e">>), Star(Space), Lit(<<"E","l","e","c","t","r","i","c">>)>> >>

\* /Service\s*address[:\s]*/i
psegAddressLabel ==
    <<Lit(<<"S","e","r","v","i","c","e">>), Star(Space), Lit(<<"a","d","d","r","e","s","s">>), Star(Space \cup {":"})>>

\* /Service\s*address[:\s]*(.+?)\s*(?:\d{5}(?:\s*-\s*\d{4})?)/is
psegAddressPattern ==
    psegAddressLabel \o
    <<Open(1), Lazy(AnyChar, 1, -1), Close(1), Star(Space), Rep(Digit, 5, 5),
      Opt(<<Star(Space), Lit(<<"-">>), Star(Space), Rep(Digit, 4, 4)>>)>>

\* /Your\s+PoD\s+ID\s+is:\s+PE(\d{18})/i and the same with PG
psegPodPattern(prefix) ==
    Words(<<<<"Y","o","u","r">>, <<"P","o","D">>, <<"I","D">>, <<"i","s",":">>>>) \o
    <<Lit(prefix), Open(1), Rep(Digit, 18, 18), Close(1)>>

\* /Total\s+gas\s+supply\s+charges\s+\$?([\d,]+\.\d{2})/i
psegGasPattern == Words(<<<<"T","o","t","a","l">>, <<"g","a","s">>, <<"s","u","p","p","l","y">>, <<"c","h","a","r","g","e","s">>>>) \o Amount

psegElectricPatterns ==
    << Rule(Words(<<<<"T","o","t","a","l">>, <<"e","l","e","c","t","r","i","c">>, <<"s","u","p","p","l","y">>, <<"c","h","a","r","g","e","s">>>>) \o Amount, 1),
       \* /Electric\s+supply\s+charges\s+-\s+[^$\n]+\$?([\d,]+\.\d{2})/i
       Rule(Words(<<<<"E","l","e","c","t","r","i","c">>, <<"s","u","p","p","l","y">>, <<"c","h","a","r","g","e","s">>, <<"-">>>>)
            \o <<Plus(AnyChar \ {"$", "\n"})>> \o Amount, 1),
       \* /Total\s+[A-Z][^\n]+(?:Energy|Power)[^\n]+Charges\s+\$?([\d,]+\.\d{2})/i
       Rule(Words(<<<<"T","o","t","a","l">>>>)
            \o <<Rep(Letter, 1, 1), Plus(AnyChar \ {"\n"}),
                 Alt(<< <<Lit(<<"E","n","e","r","g","y">>)>>, <<Lit(<<"P","o","w","e","r">>)>> >>), Plus(AnyChar \ {"\n"})>>
            \o Words(<<<<"C","h","a","r","g","e","s">>>>) \o Amount, 1) >>

psegKwhPatterns ==
    << \* /Total\s+(?:electric\s+)?(?:you\s+)?used\s+(?:in\s+\d+\s+days\s+)?([\d,]+)\s+kWh/i
       Rule(Words(<<<<"T","o","t","a","l">>>>) \o <<Opt(Words(<<<<"e","l","e","c","t","r","i","c">>>>)), Opt(Words(<<<<"y","o","u">>>>))>>
            \o Words(<<<<"u","s","e","d">>>>)
            \o <<Opt(Words(<<<<"i","n">>>>) \o <<Plus(Digit), Plus(Space)>> \o Words(<<<<"d","a","y","s">>>>))>>
            \o Quantity \o <<Plus(Space), Lit(<<"k","W","h">>)>>, 1),
       \* /Total\s+kWh\s+([\d,]+)/i
       Rule(Words(<<<<"T","o","t","a","l">>, <<"k","W","h">>>>) \o Quantity, 1),
       \* /Total\s+(?:energy\s+)?used[:\s]+([\d,]+)\s+kWh/i
       Rule(Words(<<<<"T","o","t","a","l">>>>) \o <<Opt(Words(<<<<"e","n","e","r","g","y">>>>)), Lit(<<"u","s","e","d">>),
                                     Plus(Space \cup {":"})>>
            \o Quantity \o <<Plus(Space), Lit(<<"k","W","h">>)>>, 1),
       \* /Total\s+kWh[:\s]+([\d,]+)/i
       Rule(Words(<<<<"T","o","t","a","l">>>>) \o <<Lit(<<"k","W","h">>), Plus(Space \cup {":"})>> \o Quantity, 1) >>

psegFields(fullText, pages) ==
    LET page1Text == pages[1]
        addressMatch == Search(psegAddressPattern, page1Text)
        rawAddress == trim(CollapseWhitespace(
                          trim(ReplaceFirst(psegAddressLabel, Whole(page1Text, addressMatch), <<>>))))
        electricPodMatch == Search(psegPodPattern(<<"P","E">>), fullText)
        gasPodMatch == Search(psegPodPattern(<<"P","G">>), fullText)
        gasChargesMatch == Search(psegGasPattern, fullText)
        electric == Cascade(psegElectricPatterns, fullText, 1)
        kwh == Cascade(psegKwhPatterns, fullText, 1)
    IN [ serviceAddress |->
             IF HasFirstPage(pages) /\ addressMatch.ok THEN normalizeAddress(rawAddress) ELSE NULL,
         \* declared and returned, never assigned
         accountNumber |-> NULL,
         electricPodId |->
             IF electricPodMatch.ok THEN Group(fullText, electricPodMatch, 1) ELSE NULL,
         gasPodId |->
             IF gasPodMatch.ok THEN Group(fullText, gasPodMatch, 1) ELSE NULL,
         gasSupplyCharges |->
             IF gasChargesMatch.ok THEN RemoveCommas(Group(fullText, gasChargesMatch, 1)) ELSE NULL,
         electricSupplyCharges |->
             IF electric.rule > 0 THEN RemoveCommas(Group(fullText, electric.m, 1)) ELSE NULL,
         totalUsageKwh |->
             IF kwh.rule > 0 THEN RemoveCommas(Group(fullText, kwh.m, 1)) ELSE NULL ]

\* extractData: (fullText, pages, addLog, normalizeAddress) => { ... }
psegExtractData(fullText, pages, addLog) ==
    IF FirstPageThrows(pages) \/ ~Callable(addLog) THEN Thrown
    ELSE psegFields(fullText, pages)

(***************************************************************************)
(* Provider registry and detector                                          *)
(***************************************************************************)
aceProvider == [id |-> aceId, name |-> aceName, detectPatterns |-> aceDetectPatterns]
psegProvider == [id |-> psegId, name |-> psegName, detectPatterns |-> psegDetectPatterns]

\* { ..., [def.id]: def } in an object literal: a new key is added after the
\* others; a key that is already there keeps its place and gets the new value
Register(reg, def) ==
    IF \E p \in DOMAIN reg : reg[p].id = def.id
    THEN [reg EXCEPT ![CHOOSE p \in DOMAIN reg : reg[p].id = def.id] = def]
    ELSE Append(reg, def)

\* Object.entries(PROVIDERS) enumerates the keys in insertion order
PROVIDERS == Register(Register(<<>>, aceProvider), psegProvider)

VARIABLE registry      \* the object the module binding PROVIDERS refers to

\* the provider of the example of the providers' README
myutilityId == <<"m","y","u","t","i","l","i","t","y">>
myutilityProvider ==
    [ id |-> myutilityId, name |-> <<"M","y","U","t","i","l","i","t","y">>,
      detectPatterns |->
          << <<WordB, Lit(<<"M","Y","U","T","I","L","I","T","Y">>), WordB>>,
             <<Lit(<<"M","y">>), Star(Space), Lit(<<"U","t","i","l","i","t","y">>), Star(Space), Lit(<<"C","o","m","p","a","n","y">>)>> >> ]

\* the definitions a registry literal can list: the providers, also under
\* the id of another provider (a copied file whose id was not changed)
Definitions ==
    {[def EXCEPT !.id = id] : def \in {aceProvider, psegProvider, myutilityProvider},
                              id \in {aceId, psegId, myutilityId}}

ProviderIds == {registry[p].id : p \in DOMAIN registry}

\* PROVIDERS[id]
Provider(id) == registry[CHOOSE p \in DOMAIN registry : registry[p].id = id]

\* provider.extractData(fullText, pages, addLog, normalizeAddress)
extractData(id, fullText, pages, addLog) ==
    IF id = aceId THEN aceExtractData(fullText, pages, addLog)
    ELSE psegExtractData(fullText, pages, addLog)

RECURSIVE AnyPattern(_, _, _)
AnyPattern(patterns, text, j) ==
    IF j > Len(patterns) THEN FALSE
    ELSE IF Test(patterns[j], text) THEN TRUE
    ELSE AnyPattern(patterns, text, j + 1)

\* the loop without its early return: the last provider that matches wins
RECURSIVE DetectLast(_, _)
DetectLast(fullText, p) ==
    IF p > Len(registry) THEN NULL
    ELSE LET later == DetectLast(fullText, p + 1)
         IN IF later # NULL THEN later
            ELSE IF AnyPattern(registry[p].detectPatterns, fullText, 1) THEN registry[p].id
            ELSE NULL

\* for (const [providerId, provider] of Object.entries(PROVIDERS)) ... return providerId
RECURSIVE DetectFrom(_, _)
DetectFrom(fullText, p) ==
    IF p > Len(registry) THEN NULL
    ELSE IF AnyPattern(registry[p].detectPatterns, fullText, 1) THEN registry[p].id
    ELSE DetectFrom(fullText, p + 1)

\* either branch reports through addLog before it returns
detectProvider(fullText, addLog) ==
    IF ~Callable(addLog) THEN TypeError ELSE DetectFrom(fullText, 1)

(***************************************************************************)
(* Documents: what PDF.js yields for a file, page by page                  *)
(***************************************************************************)
MaxPages == 2

\* an ACE bill with an account number, and a page without account number or address
AceBillText == <<"A","C","E"," ","A","c","c","o","u","n","t"," ","n","u","m","b","e","r",":"," ","1","2"," ","3","4"," ","B","i","l","l"," ","T","o","t","a","l"," ","U","s","e"," ","3","0","0"," ","T","o","t","a","l"," ","E","l","e","c","t","r","i","c"," ","S","u","p","p","l","y"," ","C","h","a","r","g","e","s"," ","$","1",",","2","3","4",".","5","6">>
NoDataText == <<"P","L","A","C","E"," ","s","u","p","p","l","y"," ","c","h","a","r","g","e","s"," ","2",".","0","0"," ","T","o","t","a","l"," ","E","l","e","c","t","r","i","c"," ","S","u","p","p","l","y"," ","C","h","a","r","g","e","s"," ","$","1",".","0","0">>

PageTexts ==
    { AceBillText,
      <<"A","t","l","a","n","t","i","c"," ","C","i","t","y"," ","E","l","e","c","t","r","i","c"," ","Y","o","u","r"," ","s","e","r","v","i","c","e"," ","a","d","d","r","e","s","s",":"," ","9"," ","n"," ","j"," ","s","t"," ","0","8","4","0","1"," ","B","i","l","l"," ","U","s","e"," ","(","k","W","h",")"," ","0","6","0","0","5","8"," ","0","5","9","3","6","3"," ","6","9","5"," ","8","0"," ","5","5","6","0","0">>,
      <<"A","C","E"," ","S","e","r","v","i","c","e"," ","a","d","d","r","e","s","s",":"," ","1"," ","B","a","y"," ","R","d"," ","0","8","4","0","1"," ","N","e","w"," ","X","O","O","M"," ","E","n","e","r","g","y"," ","N","J"," ","s","u","p","p","l","y"," ","c","h","a","r","g","e","s"," ","$","3",".","5","0"," ","X","O","O","M"," ","E","n","e","r","g","y"," ","N","J"," ","e","l","e","c","t","r","i","c"," ","c","h","a","r","g","e","s"," ","$","4",".","5","0">>,
      <<"A","C","E"," ","P","S","E","G"," ","A","c","c","o","u","n","t"," ","n","u","m","b","e","r",":"," ">>,
      <<"P","S","E","G"," ","S","e","r","v","i","c","e"," ","a","d","d","r","e","s","s",":"," ","5"," ","M","a","i","n"," ","S","t"," ","N"," ","J"," ","0","7","3","0","2","-"," ","6","4","7","5"," ","E","l","e","c","t","r","i","c"," ","s","u","p","p","l","y"," ","c","h","a","r","g","e","s"," ","-"," ","A","E","P"," ","E","n","e","r","g","y",","," ","I","n","c","."," ","$","6",",","8","8","2",".","8","5"," ","T","o","t","a","l"," ","A","E","P"," ","E","n","e","r","g","y"," ","C","h","a","r","g","e","s"," ","$","9",".","9","9">>,
      <<"p","s","e","g",".","c","o","m"," ","A","c","c","o","u","n","t"," ","n","u","m","b","e","r",":"," ","8","8"," ","T","o","t","a","l"," ","e","l","e","c","t","r","i","c"," ","y","o","u"," ","u","s","e","d"," ","i","n"," ","2","9"," ","d","a","y","s"," ","2",",","9","7","2"," ","k","W","h"," ","T","o","t","a","l"," ","k","W","h"," ","7","9",",","5","1","6">>,
      <<"P","S","E","&","G"," ","S","e","r","v","i","c","e"," ","a","d","d","r","e","s","s"," ","7"," ","E","l","m"," ","R","d"," ","N","J"," ","0","7","1","0","1"," ","T","o","t","a","l"," ","g","a","s"," ","s","u","p","p","l","y"," ","c","h","a","r","g","e","s"," ","$","1","0",".","0","0"," ","Y","o","u","r"," ","P","o","D"," ","I","D"," ","i","s",":"," ","P","E","0","0","0","0","1","2","0","5","4","1","0","5","7","5","1","6","2","8">>,
      <<"P","u","b","l","i","c"," ","S","e","r","v","i","c","e"," ","E","l","e","c","t","r","i","c"," ","&"," ","G","a","s"," ","A","c","c","o","u","n","t"," ","n","u","m","b","e","r"," ","7","7"," ","T","o","t","a","l"," ","e","n","e","r","g","y"," ","u","s","e","d"," ","2",",","5","2","0"," ","k","W","h"," ","T","o","t","a","l"," ","k","W","h",":"," ","7","9","5">>,
      NoDataText,
      <<"A","c","c","o","u","n","t"," ","n","u","m","b","e","r",":"," ","5"," ","D","i","f","f","e","r","e","n","c","e"," ","M","u","l","t","i","p","l","i","e","r"," ","T","o","t","a","l"," ","U","s","e"," ","6","9","5"," ","8","0"," ","5","5","6","0","0">> }

\* the page texts of a decoded file
Documents == UNION {[1..n -> PageTexts] : n \in 0..MaxPages}

\* fullText += pageText + '\n' for every page
RECURSIVE JoinPages(_)
JoinPages(ps) == IF ps = <<>> THEN <<>> ELSE Head(ps) \o <<"\n">> \o JoinPages(Tail(ps))

(***************************************************************************)
(* Files: what the user selects                                            *)
(***************************************************************************)
MaxFiles == 3

PDF == <<"a","p","p","l","i","c","a","t","i","o","n","/","p","d","f">>

\* what PDF.js makes of a file: its pages, or a rejection
Readable(doc) == [readable |-> TRUE, doc |-> doc]
Unreadable == [readable |-> FALSE, doc |-> <<>>]

\* the name of the k-th file of a selection
Name(k) == <<DigitChars[k + 1]>> \o <<".","p","d","f">>

PdfFile(name, content) == [name |-> name, type |-> PDF, content |-> content]
NotAPdf == [name |-> <<"n","o","t","e","s",".","t","x","t">>, type |-> <<"t","e","x","t","/","p","l","a","i","n">>, content |-> Unreadable]

\* the contents of the files of a list of several files
BatchContents == {Readable(<<AceBillText>>), Readable(<<NoDataText>>), Unreadable}

\* files of the given contents, named by their place after n files
Named(contents, n) == [k \in DOMAIN contents |-> PdfFile(Name(n + k), contents[k])]

\* the lists of 1..most files of the contents above, to go after n files
Several(n, most) == UNION {{Named(cs, n) : cs \in [1..m -> BatchContents]} : m \in 1..most}

\* the file lists: one file of any content, or several files of the
\* contents above
Batches ==
    {<<PdfFile(Name(1), c)>> : c \in {Readable(d) : d \in Documents} \cup {Unreadable}} \cup
    Several(0, MaxFiles)

\* a list of files is one of the file lists
Listable(list) ==
    \/ Len(list) <= 1
    \/ Len(list) <= MaxFiles /\ \A k \in DOMAIN list : list[k].content \in BatchContents

\* the PDF files one selection or drop can add to a list of n files
Additions(n) == IF n = 0 THEN Batches ELSE Several(n, MaxFiles - n)

\* what one selection or drop hands to addFiles when n files are listed: PDF
\* files, possibly with a file that is not a PDF
Selections(n) == Additions(n) \cup {Append(b, NotAPdf) : b \in Additions(n)}

\* const pdfFiles = newFiles.filter(file => file.type === 'application/pdf')
PdfFiles(newFiles) == SelectSeq(newFiles, LAMBDA file : file.type = PDF)

\* Math.round((i / n) * 100) for 0 <= i <= n: halves round up
Progress(i, n) == (200 * i + n) \div (2 * n)

(***************************************************************************)
(* State                                                                   *)
(***************************************************************************)
VARIABLES
    outcomes,          \* what a call returned or threw, for each log sink it was given
    addresses,         \* an address and what the calls of normalizeAddress made of it
    worksheet,         \* the rows of the last export of the results on the page
    utilityMode,       \* React state: "auto" or a provider id
    files,             \* React state: the selected files
    processing,        \* React state: a batch is running
    progress,          \* React state: percentage shown by the progress bar
    results, errors,   \* React state: rows and error entries of the last batch
    debugLogs,         \* React state: what was reported through addLog
    pc,                \* position of the running processPDFs and extractFromPDF
    mode,              \* utilityMode as captured by the running closure
    batchFiles,        \* files as captured by the running closure
    fileIndex,         \* processPDFs: place of the file in hand, from 1
    extractedRows, errorList,   \* processPDFs: extractedData and errorList so far
    error,             \* what extractFromPDF threw
    fullText, pages,   \* result of extractTextFromPDF
    targetProviderId, result, providerName,
    loopIndex,         \* position of the fallback loop in Object.entries(PROVIDERS)
    row                \* the row extractFromPDF returned

vars == <<registry, outcomes, addresses, worksheet, utilityMode, files, processing, progress,
          results, errors, debugLogs,
          pc, mode, batchFiles, fileIndex, extractedRows, errorList, error, fullText, pages,
          targetProviderId, result, providerName, loopIndex, row>>

\* React state, as opposed to the variables of a running call
reactState == <<utilityMode, files, processing, progress, results, errors, debugLogs>>
\* the variables of a call of extractFromPDF
locals == <<fullText, pages, targetProviderId, result, providerName, loopIndex, row>>

\* let result = { serviceAddress: null, accountNumber: null, gasSupplyCharges: null,
\*                electricSupplyCharges: null }
InitialResult ==
    [ serviceAddress |-> NULL, accountNumber |-> NULL, electricPodId |-> UNDEFINED,
      gasPodId |-> UNDEFINED, gasSupplyCharges |-> NULL, electricSupplyCharges |-> NULL,
      totalUsageKwh |-> UNDEFINED ]

NoRow ==
    [ FileName |-> UNDEFINED, Provider |-> UNDEFINED, AccountNumber |-> UNDEFINED, ServiceAddress |-> UNDEFINED,
      TotalUsageKwh |-> UNDEFINED, TotalGasSupplyCharges |-> UNDEFINED,
      TotalElectricSupplyCharges |-> UNDEFINED ]

\* one entry per call that reports through addLog: detectProvider with the id
\* it returned, extractData with the provider it belongs to and what it returned
DetectLog(id) == [op |-> "detect", id |-> id, data |-> InitialResult]
ExtractLog(id, data) == [op |-> "extract", id |-> id, data |-> data]
\* addLog(`\n[${i + 1}/${files.length}] ${file.name}`)
FileLog(name) == [op |-> "file", name |-> name]

\* the addLog of the component, and a sink that drops what it is given
ADD_LOG == <<"a","d","d","L","o","g">>
NO_OP == <<"n","o","o","p">>

\* what a caller can pass as addLog: a function, or nothing
Sinks == {ADD_LOG, NO_OP, UNDEFINED}

\* new Error(`PDF extraction failed: ${error.message}`)
PDF_ERROR == <<"P","D","F"," ","e","x","t","r","a","c","t","i","o","n"," ","f","a","i","l","e","d">>

AUTO == <<"a","u","t","o">>
\* the radio buttons: value="auto", value="ace", value="pseg"
UtilityModes == {AUTO, aceId, psegId}

\* a test that also accepts an attempt which found a charge
HasAnyField(data) ==
    \/ Truthy(data.accountNumber)
    \/ Truthy(data.serviceAddress)
    \/ Truthy(data.electricSupplyCharges)

\* extractedData.accountNumber || extractedData.serviceAddress
HasData(data) == Truthy(data.accountNumber) \/ Truthy(data.serviceAddress)

\* the detector called whatever the mode
UsesDetectorAlways(m) == TRUE

\* utilityMode === 'auto'
UsesDetector(m) == m = AUTO

\* the target obtained when the detector is called: the detected id, or the
\* selected provider in the other modes
TargetOf(m, detected) == IF m = AUTO THEN detected ELSE m

\* result assigned before the test of the attempt
AdoptAlways(extractedData, current) == extractedData

\* if (extractedData.accountNumber || extractedData.serviceAddress) result = extractedData
AdoptResult(extractedData, current) ==
    IF HasData(extractedData) THEN extractedData ELSE current

\* providerName assigned before the test of the attempt
AdoptNameAlways(extractedData, provider, current) == provider.name

\* if (...) providerName = provider.name
AdoptName(extractedData, provider, current) ==
    IF HasData(extractedData) THEN provider.name ELSE current

\* the fallback entered only when there was no target
FallbackOnlyWithoutTarget(res, target) == Falsy(target)

\* if (!result.accountNumber && !result.serviceAddress)
FallbackNeeded(res, target) == Falsy(res.accountNumber) /\ Falsy(res.serviceAddress)

\* the loop without its skip
SkipNone(providerId, target) == FALSE

\* if (providerId === targetProviderId) continue
Skip(providerId, target) == providerId = target

\* the loop without its break
BreakNever(extractedData) == FALSE

\* if (extractedData.accountNumber || extractedData.serviceAddress) { ...; break; }
Break(extractedData) == HasData(extractedData)

\* the state of the page when the component is mounted
Mounted ==
    /\ outcomes = <<>>
    /\ addresses = <<>>
    /\ worksheet = <<>>
    /\ utilityMode = AUTO
    /\ files = <<>>
    /\ processing = FALSE
    /\ progress = 0
    /\ results = <<>>
    /\ errors = <<>>
    /\ debugLogs = <<>>
    /\ pc = "ready"
    /\ mode = AUTO
    /\ batchFiles = <<>>
    /\ fileIndex = 0
    /\ extractedRows = <<>>
    /\ errorList = <<>>
    /\ error = NULL
    /\ fullText = <<>>
    /\ pages = <<>>
    /\ targetProviderId = NULL
    /\ result = InitialResult
    /\ providerName = NULL
    /\ loopIndex = 0
    /\ row = NoRow

Init == registry = PROVIDERS /\ Mounted

\* a result object shared by the calls
ResultKept(previous) == previous

\* let result = { ... }: every call of extractFromPDF starts from its own object
ResultAtCall(previous) == InitialResult

\* no batch is running: the handlers of the page run between batches (what
\* they do during a batch is the subject of RaceSpec)
Idle == pc \in {"ready", "complete"}

\* the variables of a call of extractFromPDF before the call
FreshLocals ==
    /\ fullText' = <<>>
    /\ pages' = <<>>
    /\ targetProviderId' = NULL
    /\ result' = ResultAtCall(result)
    /\ providerName' = NULL
    /\ loopIndex' = 0
    /\ row' = NoRow

(***************************************************************************)
(* Handlers of the page                                                    *)
(***************************************************************************)
\* the radio buttons: onChange={(e) => setUtilityMode(e.target.value)}
\* (a change made during a batch is not seen by the closure of that batch)
SetUtilityMode(m) ==
    /\ Idle
    /\ utilityMode' = m
    /\ UNCHANGED <<registry, outcomes, addresses, worksheet,
                   files, processing, progress, results, errors, debugLogs,
                   pc, mode, batchFiles, fileIndex, extractedRows, errorList, error, locals>>

\* addFiles, from the file input and from a drop; files are selected on a
\* page that shows no logs of an earlier batch
addFiles ==
    /\ Idle
    /\ debugLogs = <<>>
    /\ \E newFiles \in Selections(Len(files)) :
          /\ Listable(files \o PdfFiles(newFiles))
          /\ files' = files \o PdfFiles(newFiles)
    /\ results' = <<>>
    /\ errors' = <<>>
    /\ progress' = 0
    /\ pc' = "ready"
    /\ UNCHANGED <<registry, outcomes, addresses, worksheet,
                   utilityMode, processing, debugLogs, mode, batchFiles, fileIndex,
                   extractedRows, errorList, error, locals>>

\* the button is shown when files.length > 0
clearAllFiles ==
    /\ Idle
    /\ Len(files) > 0
    /\ files' = <<>>
    /\ results' = <<>>
    /\ errors' = <<>>
    /\ progress' = 0
    /\ worksheet' = <<>>
    /\ pc' = "ready"
    /\ UNCHANGED <<registry, outcomes, addresses,
                   utilityMode, processing, debugLogs, mode, batchFiles, fileIndex,
                   extractedRows, errorList, error, locals>>

\* the button is shown when results.length > 0
clearResults ==
    /\ Idle
    /\ Len(results) > 0
    /\ results' = <<>>
    /\ errors' = <<>>
    /\ debugLogs' = <<>>
    /\ files' = <<>>
    /\ progress' = 0
    /\ worksheet' = <<>>
    /\ pc' = "ready"
    /\ UNCHANGED <<registry, outcomes, addresses,
                   utilityMode, processing, mode, batchFiles, fileIndex, extractedRows,
                   errorList, error, locals>>

(***************************************************************************)
(* Export of the results: excelExport.js                                   *)
(***************************************************************************)
NOT_FOUND == <<"N","o","t"," ","F","o","u","n","d">>

\* cleanedRow[key] = value as it is
KeepValue(value) == value

\* (value === null || value === undefined || value === '') ? 'Not Found' : value
CleanValue(value) == IF value \in {NULL, UNDEFINED, <<>>} THEN NOT_FOUND ELSE value

\* results.map(row => { for (const [key, value] of Object.entries(row)) ... })
replaceNullWithNotFound(rows) ==
    [k \in DOMAIN rows |-> [key \in DOMAIN rows[k] |-> CleanValue(rows[k][key])]]

\* the columns of the gas export and of the electric export
GasColumns ==
    {"FileName", "Provider", "AccountNumber", "ServiceAddress", "TotalGasSupplyCharges"}
ElectricColumns ==
    {"FileName", "Provider", "AccountNumber", "ServiceAddress", "TotalElectricSupplyCharges"}

\* results.map(row => ({ 'File Name': row['File Name'], ... }))
Columns(rows, columns) == [k \in DOMAIN rows |-> [key \in columns |-> rows[k][key]]]

\* exportToExcel(results, ...): the sheet is made of the cleaned rows
handleExportCombined ==
    /\ Idle
    /\ Len(results) > 0
    /\ worksheet' = replaceNullWithNotFound(results)
    /\ UNCHANGED <<registry, outcomes, addresses, reactState, pc, mode, batchFiles, fileIndex,
                   extractedRows, errorList, error, locals>>

\* exportGasOnly(results, ...)
handleExportGas ==
    /\ Idle
    /\ Len(results) > 0
    /\ worksheet' = replaceNullWithNotFound(Columns(results, GasColumns))
    /\ UNCHANGED <<registry, outcomes, addresses, reactState, pc, mode, batchFiles, fileIndex,
                   extractedRows, errorList, error, locals>>

\* exportElectricOnly(results, ...)
handleExportElectric ==
    /\ Idle
    /\ Len(results) > 0
    /\ worksheet' = replaceNullWithNotFound(Columns(results, ElectricColumns))
    /\ UNCHANGED <<registry, outcomes, addresses, reactState, pc, mode, batchFiles, fileIndex,
                   extractedRows, errorList, error, locals>>

(***************************************************************************)
(* processPDFs and the calls it makes                                      *)
(***************************************************************************)
\* processPDFs up to the first await: the state is cleared and the first file
\* is handed to extractFromPDF, which sees the utilityMode of this render
processPDFs ==
    /\ Idle
    /\ IF Len(files) = 0
       THEN \* showToast('Please select PDF files first', 'error'); return
            UNCHANGED vars
       ELSE /\ processing' = TRUE
            /\ progress' = 0
            /\ results' = <<>>
            /\ errors' = <<>>
            /\ debugLogs' = <<FileLog(files[1].name)>>
            /\ mode' = utilityMode
            /\ batchFiles' = files
            /\ fileIndex' = 1
            /\ extractedRows' = <<>>
            /\ errorList' = <<>>
            /\ error' = NULL
            /\ FreshLocals
            /\ worksheet' = <<>>
            /\ pc' = "extractText"
            /\ UNCHANGED <<registry, outcomes, addresses,
                           utilityMode, files>>

\* const { fullText, pages, numPages } = await extractTextFromPDF(file)
extractTextFromPDF ==
    /\ pc = "extractText"
    /\ LET file == batchFiles[fileIndex]
       IN IF file.content.readable
          THEN /\ pages' = file.content.doc
               /\ fullText' = JoinPages(file.content.doc)
               /\ pc' = "determine"
               /\ UNCHANGED error
          ELSE \* PDF.js rejects the file: the error leaves extractFromPDF
               /\ error' = PDF_ERROR
               /\ pc' = "failed"
               /\ UNCHANGED <<pages, fullText>>
    /\ result' = ResultAtCall(result)
    /\ providerName' = NULL
    /\ targetProviderId' = NULL
    /\ UNCHANGED <<registry, outcomes, addresses, worksheet,
                   reactState, mode, batchFiles, fileIndex, extractedRows, errorList,
                   loopIndex, row>>

\* if (utilityMode === 'auto') targetProviderId = detectProvider(fullText, addLog)
\* else targetProviderId = utilityMode
DetermineProvider ==
    /\ pc = "determine"
    /\ IF UsesDetector(mode)
       THEN \E id \in {detectProvider(fullText, ADD_LOG)} :
               IF id = TypeError
               THEN /\ error' = TypeError
                    /\ pc' = "failed"
                    /\ UNCHANGED <<targetProviderId, debugLogs>>
               ELSE /\ targetProviderId' = TargetOf(mode, id)
                    /\ debugLogs' = Append(debugLogs, DetectLog(id))
                    /\ pc' = "target"
                    /\ UNCHANGED error
       ELSE /\ targetProviderId' = mode
            /\ pc' = "target"
            /\ UNCHANGED <<debugLogs, error>>
    /\ UNCHANGED <<registry, outcomes, addresses, worksheet,
                   utilityMode, files, processing, progress, results, errors,
                   mode, batchFiles, fileIndex, extractedRows, errorList, fullText, pages, result,
                   providerName, loopIndex, row>>

\* if (targetProviderId && PROVIDERS[targetProviderId]) { ... }
TryTargetProvider ==
    /\ pc = "target"
    /\ IF Truthy(targetProviderId) /\ targetProviderId \in ProviderIds
       THEN LET provider == Provider(targetProviderId)
            IN \E extracted \in {extractData(provider.id, fullText, pages, ADD_LOG)} :
                  IF Threw(extracted)
                  THEN /\ error' = TypeError
                       /\ pc' = "failed"
                       /\ UNCHANGED <<debugLogs, result, providerName>>
                  ELSE /\ debugLogs' = Append(debugLogs, ExtractLog(provider.id, extracted))
                       /\ result' = AdoptResult(extracted, result)
                       /\ providerName' = AdoptName(extracted, provider, providerName)
                       /\ pc' = "check"
                       /\ UNCHANGED error
       ELSE /\ pc' = "check"
            /\ UNCHANGED <<debugLogs, result, providerName, error>>
    /\ UNCHANGED <<registry, outcomes, addresses, worksheet,
                   utilityMode, files, processing, progress, results, errors,
                   mode, batchFiles, fileIndex, extractedRows, errorList, fullText, pages,
                   targetProviderId, loopIndex, row>>

\* the fallback leaving the target out by deleting it from PROVIDERS
CheckFallbackDeletingTarget ==
    /\ pc = "check"
    /\ IF FallbackNeeded(result, targetProviderId)
       THEN /\ pc' = "loop"
            /\ loopIndex' = 1
            /\ registry' = SelectSeq(registry, LAMBDA provider : provider.id # targetProviderId)
       ELSE pc' = "return" /\ UNCHANGED <<loopIndex, registry>>
    /\ UNCHANGED <<outcomes, addresses, worksheet,
                   reactState, mode, batchFiles, fileIndex, extractedRows, errorList, error,
                   fullText, pages, targetProviderId, result, providerName, row>>

\* if (!result.accountNumber && !result.serviceAddress) { for (...) }
CheckFallback ==
    /\ pc = "check"
    /\ IF FallbackNeeded(result, targetProviderId)
       THEN pc' = "loop" /\ loopIndex' = 1
       ELSE pc' = "return" /\ UNCHANGED loopIndex
    /\ UNCHANGED <<registry, outcomes, addresses, worksheet,
                   reactState, mode, batchFiles, fileIndex, extractedRows, errorList, error,
                   fullText, pages, targetProviderId, result, providerName, row>>

\* one iteration of for (const [providerId, provider] of Object.entries(PROVIDERS))
FallbackIteration ==
    /\ pc = "loop"
    /\ IF loopIndex > Len(registry)
       THEN /\ pc' = "return"
            /\ UNCHANGED <<loopIndex, result, providerName, debugLogs, error>>
       ELSE LET provider == registry[loopIndex]
            IN IF Skip(provider.id, targetProviderId)
               THEN \* continue
                    /\ loopIndex' = loopIndex + 1
                    /\ UNCHANGED <<pc, result, providerName, debugLogs, error>>
               ELSE \E extracted \in {extractData(provider.id, fullText, pages, ADD_LOG)} :
                       IF Threw(extracted)
                       THEN /\ error' = TypeError
                            /\ pc' = "failed"
                            /\ UNCHANGED <<debugLogs, loopIndex, result, providerName>>
                       ELSE /\ debugLogs' = Append(debugLogs, ExtractLog(provider.id, extracted))
                            /\ result' = AdoptResult(extracted, result)
                            /\ providerName' = AdoptName(extracted, provider, providerName)
                            /\ UNCHANGED error
                            /\ IF Break(extracted)
                               THEN pc' = "return" /\ UNCHANGED loopIndex
                               ELSE loopIndex' = loopIndex + 1 /\ UNCHANGED pc
    /\ UNCHANGED <<registry, outcomes, addresses, worksheet,
                   utilityMode, files, processing, progress, results, errors,
                   mode, batchFiles, fileIndex, extractedRows, errorList, fullText, pages,
                   targetProviderId, row>>

\* return { 'File Name': file.name, 'Provider': providerName, 'Account Number': ..., ... }
ReturnRow ==
    /\ pc = "return"
    /\ row' = [ FileName |-> batchFiles[fileIndex].name,
                Provider |-> providerName,
                AccountNumber |-> result.accountNumber,
                ServiceAddress |-> result.serviceAddress,
                TotalUsageKwh |-> result.totalUsageKwh,
                TotalGasSupplyCharges |-> result.gasSupplyCharges,
                TotalElectricSupplyCharges |-> result.electricSupplyCharges ]
    /\ pc' = "done"
    /\ UNCHANGED <<registry, outcomes, addresses, worksheet,
                   reactState, mode, batchFiles, fileIndex, extractedRows, errorList, error,
                   fullText, pages, targetProviderId, result, providerName, loopIndex>>

\* const data = await extractFromPDF(file); extractedData.push(data); setProgress(...)
RecordResult ==
    /\ pc = "done"
    /\ extractedRows' = Append(extractedRows, row)
    /\ progress' = Progress(fileIndex, Len(batchFiles))
    /\ pc' = "next"
    /\ UNCHANGED <<registry, outcomes, addresses, worksheet,
                   utilityMode, files, processing, results, errors, debugLogs,
                   mode, batchFiles, fileIndex, errorList, error, locals>>

\* catch (error) { errorList.push({ fileName: file.name, error: error.message }) }
RecordError ==
    /\ pc = "failed"
    /\ errorList' = Append(errorList, [fileName |-> batchFiles[fileIndex].name, error |-> error])
    /\ pc' = "next"
    /\ UNCHANGED <<registry, outcomes, addresses, worksheet,
                   reactState, mode, batchFiles, fileIndex, extractedRows, error, locals>>

\* a failure ending the loop
LastFileOrFailed(i, n, failed) == i >= n \/ failed # NULL

\* the condition that ends for (let i = 0; i < files.length; i++): the catch
\* is inside the loop, a failure does not end it
LastFile(i, n, failed) == i >= n

\* i++ with i < files.length: the next file is handed to extractFromPDF
NextFile ==
    /\ pc = "next"
    /\ ~LastFile(fileIndex, Len(batchFiles), error)
    /\ fileIndex' = fileIndex + 1
    /\ debugLogs' = Append(debugLogs, FileLog(batchFiles[fileIndex + 1].name))
    /\ error' = NULL
    /\ FreshLocals
    /\ pc' = "extractText"
    /\ UNCHANGED <<registry, outcomes, addresses, worksheet,
                   utilityMode, files, processing, progress, results, errors,
                   mode, batchFiles, extractedRows, errorList>>

\* after the loop: setResults(extractedData); setErrors(errorList);
\* setProcessing(false); the variables of the call are gone
FinishBatch ==
    /\ pc = "next"
    /\ LastFile(fileIndex, Len(batchFiles), error)
    /\ results' = extractedRows
    /\ errors' = errorList
    /\ processing' = FALSE
    /\ batchFiles' = <<>>
    /\ fileIndex' = 0
    /\ extractedRows' = <<>>
    /\ errorList' = <<>>
    /\ error' = NULL
    /\ FreshLocals
    /\ pc' = "complete"
    /\ UNCHANGED <<registry, outcomes, addresses, worksheet,
                   utilityMode, files, progress, debugLogs, mode>>

Next ==
    \/ \E m \in UtilityModes : SetUtilityMode(m)
    \/ addFiles
    \/ clearAllFiles
    \/ clearResults
    \/ handleExportCombined
    \/ handleExportGas
    \/ handleExportElectric
    \/ processPDFs
    \/ extractTextFromPDF
    \/ DetermineProvider
    \/ TryTargetProvider
    \/ CheckFallback
    \/ FallbackIteration
    \/ ReturnRow
    \/ RecordResult
    \/ RecordError
    \/ NextFile
    \/ FinishBatch

Spec == Init /\ [][Next]_vars

(***************************************************************************)
(* The evaluation of a registry literal, one property definition at a time *)
(***************************************************************************)
\* [def.id]: def
RegisterProvider(def) ==
    /\ registry' = Register(registry, def)
    /\ UNCHANGED <<outcomes, addresses, worksheet,
                   reactState, pc, mode, batchFiles, fileIndex, extractedRows, errorList, error, locals>>

RegistryInit == registry = <<>> /\ Mounted

RegistryNext == \E def \in Definitions : RegisterProvider(def)

RegistrySpec == RegistryInit /\ [][RegistryNext]_vars

(***************************************************************************)
(* Calls of a provider and of the detector with each log sink              *)
(***************************************************************************)
SinkInit ==
    /\ registry = PROVIDERS
    /\ outcomes = <<>>
    /\ addresses = <<>>
    /\ worksheet = <<>>
    /\ utilityMode = AUTO
    /\ files = <<>>
    /\ processing = FALSE
    /\ progress = 0
    /\ results = <<>>
    /\ errors = <<>>
    /\ debugLogs = <<>>
    /\ pc = "call"
    /\ mode = AUTO
    /\ batchFiles = <<>>
    /\ fileIndex = 0
    /\ extractedRows = <<>>
    /\ errorList = <<>>
    /\ error = NULL
    /\ pages \in Documents
    /\ fullText = JoinPages(pages)
    /\ targetProviderId \in ProviderIds
    /\ result = InitialResult
    /\ providerName = NULL
    /\ loopIndex = 0
    /\ row = NoRow

\* provider.extractData(fullText, pages, addLog, normalizeAddress)
CallExtractData ==
    /\ pc = "call"
    /\ outcomes' = [addLog \in Sinks |-> extractData(targetProviderId, fullText, pages, addLog)]
    /\ pc' = "extracted"
    /\ UNCHANGED <<registry, addresses, worksheet, reactState, mode, batchFiles, fileIndex, extractedRows,
                   errorList, error, locals>>

\* detectProvider(fullText, addLog)
CallDetectProvider ==
    /\ pc = "call"
    /\ outcomes' = [addLog \in Sinks |-> detectProvider(fullText, addLog)]
    /\ pc' = "detected"
    /\ UNCHANGED <<registry, addresses, worksheet, reactState, mode, batchFiles, fileIndex, extractedRows,
                   errorList, error, locals>>

SinkNext == CallExtractData \/ CallDetectProvider

SinkSpec == SinkInit /\ [][SinkNext]_vars

(***************************************************************************)
(* Calls of normalizeAddress, on an address and on what it returned        *)
(***************************************************************************)
MaxPieces == 2
MaxCalls == 3

\* fragments of addresses as PDF.js hands them over: split state codes, split
\* ZIP+4 codes, digits and letters run together, words in any case
Pieces ==
    { <<"N"," ","J">>, <<"n"," ","j">>, <<"T"," ","X">>, <<"P"," "," ","A">>, <<" ">>, <<"5">>, <<"1","2","a">>, <<"n","j">>, <<"s","e">>, <<"M","a">>, <<"W"," ">>,
      <<"0","7","3","0","2","-"," ","6","4","7","5">>, <<"0","7","3","0","2"," ","-">>, <<"6","4","7","5">>, <<"0"," ","-"," ","1","2","3","4">>, <<"M","a","i","n"," ","s","t">> }

RECURSIVE Concat(_)
Concat(ps) == IF ps = <<>> THEN <<>> ELSE Head(ps) \o Concat(Tail(ps))

\* what normalizeAddress can be given: nothing, or text
AddressInputs ==
    {NULL, UNDEFINED, <<>>, <<"1","2","3"," ","n"," ","j"," ","m","a","i","n"," ","s","t","r","e","e","t"," ","n","e","w","a","r","k"," ","n","j"," ","0","7","3","0","2","-"," ","6","4","7","5">>} \cup
    UNION {{Concat(ps) : ps \in [1..n -> Pieces]} : n \in 1..MaxPieces}

NormalizeInit ==
    /\ registry = PROVIDERS
    /\ outcomes = <<>>
    /\ addresses \in {<<address>> : address \in AddressInputs}
    /\ worksheet = <<>>
    /\ utilityMode = AUTO
    /\ files = <<>>
    /\ processing = FALSE
    /\ progress = 0
    /\ results = <<>>
    /\ errors = <<>>
    /\ debugLogs = <<>>
    /\ pc = "address"
    /\ mode = AUTO
    /\ batchFiles = <<>>
    /\ fileIndex = 0
    /\ extractedRows = <<>>
    /\ errorList = <<>>
    /\ error = NULL
    /\ fullText = <<>>
    /\ pages = <<>>
    /\ targetProviderId = NULL
    /\ result = InitialResult
    /\ providerName = NULL
    /\ loopIndex = 0
    /\ row = NoRow

\* normalizeAddress(address), address being what the last call returned
CallNormalizeAddress ==
    /\ pc = "address"
    /\ Len(addresses) <= MaxCalls
    /\ addresses' = Append(addresses, normalizeAddress(addresses[Len(addresses)]))
    /\ UNCHANGED <<registry, outcomes, worksheet, reactState, pc, mode, batchFiles, fileIndex,
                   extractedRows, errorList, error, locals>>

NormalizeNext == CallNormalizeAddress

NormalizeSpec == NormalizeInit /\ [][NormalizeNext]_vars

(***************************************************************************)
(* extractFromPDF after the text is extracted: any text, with the pages it *)
(* was joined from or with no pages at all                                 *)
(***************************************************************************)
\* a selected id that is no key of PROVIDERS
unregisteredId == <<"w","a","t","e","r">>

ResolveInit ==
    /\ registry = PROVIDERS
    /\ outcomes = <<>>
    /\ addresses = <<>>
    /\ worksheet = <<>>
    /\ utilityMode \in UtilityModes \cup {unregisteredId}
    /\ mode = utilityMode
    /\ \E doc \in Documents :
          /\ fullText = JoinPages(doc)
          /\ pages \in {<<>>, doc}
    /\ files = Named(<<Readable(pages)>>, 0)
    /\ batchFiles = files
    /\ processing = TRUE
    /\ progress = 0
    /\ results = <<>>
    /\ errors = <<>>
    /\ debugLogs = <<FileLog(Name(1))>>
    /\ pc = "determine"
    /\ fileIndex = 1
    /\ extractedRows = <<>>
    /\ errorList = <<>>
    /\ error = NULL
    /\ targetProviderId = NULL
    /\ result = InitialResult
    /\ providerName = NULL
    /\ loopIndex = 0
    /\ row = NoRow

ResolveNext ==
    \/ DetermineProvider
    \/ TryTargetProvider
    \/ CheckFallback
    \/ FallbackIteration
    \/ ReturnRow

ResolveSpec == ResolveInit /\ [][ResolveNext]_vars

(***************************************************************************)
(* Observations used by the properties                                     *)
(***************************************************************************)
\* what was logged for the file in hand: the entries after its own
FileMarks == {k \in DOMAIN debugLogs : debugLogs[k].op = "file"}
CurrentLogs ==
    IF FileMarks = {} THEN <<>> ELSE SubSeq(debugLogs, Max(FileMarks) + 1, Len(debugLogs))
\* the extractData calls of the current run, in the order they were made
Attempts == SelectSeq(CurrentLogs, LAMBDA e : e.op = "extract")
\* the detectProvider calls of the current run
Detections == SelectSeq(CurrentLogs, LAMBDA e : e.op = "detect")

RegisteredIds == [p \in DOMAIN PROVIDERS |-> PROVIDERS[p].id]
OtherIds(target) == SelectSeq(RegisteredIds, LAMBDA id : id # target)
NameOf(id) == Provider(id).name

\* a field holds a value: it is neither null nor absent nor empty
Present(v) == v # NULL /\ v # UNDEFINED /\ v # <<>>
Succeeded(data) == Present(data.accountNumber) \/ Present(data.serviceAddress)

\* the providers with a detect pattern that matches the text
MatchingProviders(text) ==
    {p \in DOMAIN PROVIDERS :
        \E j \in DOMAIN PROVIDERS[p].detectPatterns :
            Test(PROVIDERS[p].detectPatterns[j], text)}

\* name occurs in text as a word of its own
ContainsWord(text, name) ==
    \E i \in 1..Len(text) - Len(name) + 1 :
        /\ SubSeq(text, i, i + Len(name) - 1) = name
        /\ ~IsWordAt(text, i - 1)
        /\ ~IsWordAt(text, i + Len(name))

AceNamed(text) == ContainsWord(text, <<"A","C","E">>) \/ ContainsWord(text, <<"A","t","l","a","n","t","i","c"," ","C","i","t","y"," ","E","l","e","c","t","r","i","c">>)
PsegNamed(text) ==
    ContainsWord(text, <<"P","S","E","&","G">>) \/ ContainsWord(text, <<"P","u","b","l","i","c"," ","S","e","r","v","i","c","e"," ","E","l","e","c","t","r","i","c"," ","&"," ","G","a","s">>)

\* the rules of a cascade that match the text, and the value rule j yields
MatchingRules(rules, text) == {j \in DOMAIN rules : Test(rules[j].re, text)}
ValueOfRule(rules, j, text, strip) ==
    LET g == Group(text, Search(rules[j].re, text), rules[j].groups)
    IN IF strip THEN RemoveCommas(g) ELSE g
FirstRuleWins(rules, text, strip, v) ==
    LET M == MatchingRules(rules, text)
    IN IF M = {} THEN v = NULL ELSE v = ValueOfRule(rules, Min(M), text, strip)

(***************************************************************************)
(* Properties                                                              *)
(***************************************************************************)
\* C1: when the first attempt did not succeed or there was none, the other
\* registered providers are tried in registration order, the one already
\* attempted is skipped, and the loop stops at the first success: no
\* provider is run after a successful one.
C1_FallbackOrder ==
    pc = "done" =>
        LET att == Attempts
            nFirst == IF targetProviderId \in ProviderIds THEN 1 ELSE 0
            fb == SubSeq(att, nFirst + 1, Len(att))
            others == OtherIds(targetProviderId)
        IN /\ Len(att) >= nFirst
           /\ nFirst = 1 => att[1].id = targetProviderId
           /\ IF nFirst = 1 /\ Succeeded(att[1].data)
              THEN fb = <<>>
              ELSE /\ Len(fb) <= Len(others)
                   /\ \A k \in DOMAIN fb : fb[k].id = others[k]
                   /\ \A k \in DOMAIN fb : Succeeded(fb[k].data) => k = Len(fb)
                   /\ Len(fb) < Len(others) => fb # <<>> /\ Succeeded(fb[Len(fb)].data)

C1_Witness ==
    /\ pc = "done"
    /\ targetProviderId = aceId
    /\ Len(Attempts) = 2
    /\ ~Succeeded(Attempts[1].data)
    /\ Attempts[2].id = psegId
    /\ Succeeded(Attempts[2].data)

\* C2: detectProvider returns the id of the first provider in registration
\* order with a matching detect pattern, and null exactly when no pattern of
\* any provider matches; a text matching both providers yields ace.
C2_DetectFirstMatch ==
    pc = "target" /\ mode = AUTO =>
        LET M == MatchingProviders(fullText)
        IN targetProviderId = IF M = {} THEN NULL ELSE PROVIDERS[Min(M)].id

C2_Witness ==
    /\ pc = "target"
    /\ mode = AUTO
    /\ MatchingProviders(fullText) = DOMAIN PROVIDERS
    /\ targetProviderId = aceId

\* C3: the returned provider name is the name of the provider whose attempt
\* produced the returned fields; when an attempt fails and a later one
\* succeeds the row carries the later provider's name and fields, and
\* nothing of the failed attempt.
C3_NameMatchesFields ==
    pc = "done" =>
        LET att == Attempts
            last == att[Len(att)]
        IN /\ row.Provider # NULL => att # <<>> /\ Succeeded(last.data)
           /\ att # <<>> /\ Succeeded(last.data) =>
                 /\ row.Provider = NameOf(last.id)
                 /\ row.AccountNumber = last.data.accountNumber
                 /\ row.ServiceAddress = last.data.serviceAddress
                 /\ row.TotalUsageKwh = last.data.totalUsageKwh
                 /\ row.TotalGasSupplyCharges = last.data.gasSupplyCharges
                 /\ row.TotalElectricSupplyCharges = last.data.electricSupplyCharges
                 /\ \A k \in 1..Len(att) - 1 : ~Succeeded(att[k].data)
           /\ row.Provider = psegName => row.TotalGasSupplyCharges # <<"A","C","E"," ","D","o","e","s","n","'","t"," ","S","u","p","p","l","y"," ","G","a","s">>

C3_Witness ==
    /\ pc = "done"
    /\ Len(Attempts) = 2
    /\ Attempts[1].id = aceId
    /\ Attempts[1].data.gasSupplyCharges = <<"A","C","E"," ","D","o","e","s","n","'","t"," ","S","u","p","p","l","y"," ","G","a","s">>
    /\ Present(Attempts[1].data.electricSupplyCharges)
    /\ Attempts[2].id = psegId
    /\ row.Provider = psegName
    /\ Present(row.ServiceAddress)

\* C4: when no provider's extraction succeeds the row has a null provider
\* name and every field null or absent; the gas sentinel of a failed ACE
\* attempt is not in it.
C4_NoSuccessAllNull ==
    pc = "done" /\ (\A k \in DOMAIN Attempts : ~Succeeded(Attempts[k].data)) =>
        /\ row.Provider = NULL
        /\ \A v \in {row.AccountNumber, row.ServiceAddress, row.TotalUsageKwh,
                     row.TotalGasSupplyCharges, row.TotalElectricSupplyCharges} :
              v \in {NULL, UNDEFINED}

C4_Witness ==
    /\ pc = "done"
    /\ \A k \in DOMAIN Attempts : ~Succeeded(Attempts[k].data)
    /\ \E k \in DOMAIN Attempts :
          /\ Attempts[k].id = aceId
          /\ Attempts[k].data.gasSupplyCharges = <<"A","C","E"," ","D","o","e","s","n","'","t"," ","S","u","p","p","l","y"," ","G","a","s">>
          /\ Present(Attempts[k].data.electricSupplyCharges)
    /\ row.TotalGasSupplyCharges = NULL

\* C5: a null provider name is returned only after extraction was attempted
\* with every registered provider, also when detection found no provider.
C5_NullAfterAllTried ==
    pc = "done" /\ row.Provider = NULL =>
        \A id \in ProviderIds : \E k \in DOMAIN Attempts : Attempts[k].id = id

C5_Witness ==
    /\ pc = "done"
    /\ mode = AUTO
    /\ Len(Detections) = 1
    /\ Detections[1].id = NULL
    /\ row.Provider = NULL
    /\ Len(Attempts) = 2
    /\ Attempts[1].id = aceId
    /\ Attempts[2].id = psegId

\* C6: an attempt is adopted as the result exactly when its account number
\* or its service address is present; charges, usage and the gas sentinel do
\* not make an attempt succeed.
C6_SuccessCriterion ==
    pc = "done" =>
        \A k \in DOMAIN Attempts :
            Succeeded(Attempts[k].data) <=>
                /\ k = Len(Attempts)
                /\ result = Attempts[k].data
                /\ providerName = NameOf(Attempts[k].id)

C6_Witness ==
    /\ pc = "done"
    /\ \E k \in DOMAIN Attempts :
          /\ Attempts[k].id = aceId
          /\ Present(Attempts[k].data.electricSupplyCharges)
          /\ Present(Attempts[k].data.totalUsageKwh)
          /\ Present(Attempts[k].data.gasSupplyCharges)
          /\ ~Succeeded(Attempts[k].data)
          /\ result # Attempts[k].data
    /\ Succeeded(Attempts[Len(Attempts)].data)

\* C7: with a selected provider (a mode other than auto) that provider's
\* extraction runs first and detectProvider is not called; detectProvider is
\* called, once and before any extraction, only in auto mode.
C7_PreferredSkipsDetector ==
    /\ Detections # <<>> => mode = AUTO
    /\ mode # AUTO /\ Attempts # <<>> => Attempts[1].id = mode
    /\ mode # AUTO /\ pc \in {"check", "loop", "return", "done"} => Attempts # <<>>
    /\ mode = AUTO /\ pc \in {"target", "check", "loop", "return", "done"} =>
          Len(Detections) = 1 /\ CurrentLogs[1].op = "detect"

C7_Witness ==
    /\ pc = "done"
    /\ mode = psegId
    /\ Detections = <<>>
    /\ Len(Attempts) = 2
    /\ Attempts[1].id = psegId
    /\ Attempts[2].id = aceId
    /\ AceNamed(fullText)

\* C8: a text that names an issuer (ACE or Atlantic City Electric, PSE&G or
\* Public Service Electric & Gas) and not the other one is detected as that
\* issuer; a text with no marker of either issuer is detected as none.
C8_DetectByName ==
    pc = "target" /\ mode = AUTO =>
        /\ AceNamed(fullText) /\ ~PsegNamed(fullText) => targetProviderId = aceId
        /\ PsegNamed(fullText) /\ ~AceNamed(fullText) => targetProviderId = psegId
        /\ ~AceNamed(fullText) /\ ~PsegNamed(fullText) /\ MatchingProviders(fullText) = {}
              => targetProviderId = NULL

\* C9: every ACE extraction returns the gas field equal to the sentinel
\* "ACE Doesn't Supply Gas", also for an empty text and an empty page list
\* and whatever the other fields are.
C9_AceSentinel ==
    \A k \in DOMAIN Attempts :
        Attempts[k].id = aceId =>
            Attempts[k].data.gasSupplyCharges = <<"A","C","E"," ","D","o","e","s","n","'","t"," ","S","u","p","p","l","y"," ","G","a","s">>

C9_Witness ==
    /\ pages = <<>>
    /\ fullText = <<>>
    /\ \E k \in DOMAIN Attempts :
          /\ Attempts[k].id = aceId
          /\ Attempts[k].data.accountNumber = NULL
          /\ Attempts[k].data.electricSupplyCharges = NULL

\* C10: the electric supply charges and the usage of an extraction are the
\* value of the lowest-index rule of the cascade that matches the text, and
\* null when no rule matches; a later rule that also matches never decides.
C10_CascadePrecedence ==
    pc = "return" =>
        \A k \in DOMAIN Attempts :
            LET a == Attempts[k]
            IN IF a.id = aceId
               THEN /\ FirstRuleWins(aceElectricPatterns, fullText, TRUE,
                                     a.data.electricSupplyCharges)
                    /\ FirstRuleWins(aceKwhPatterns, fullText, FALSE, a.data.totalUsageKwh)
               ELSE /\ FirstRuleWins(psegElectricPatterns, fullText, TRUE,
                                     a.data.electricSupplyCharges)
                    /\ FirstRuleWins(psegKwhPatterns, fullText, TRUE, a.data.totalUsageKwh)

C10_Witness ==
    /\ pc = "return"
    /\ \E k \in DOMAIN Attempts :
          /\ Attempts[k].id = aceId
          /\ {1, 5} \subseteq MatchingRules(aceElectricPatterns, fullText)
          /\ ValueOfRule(aceElectricPatterns, 1, fullText, TRUE)
                # ValueOfRule(aceElectricPatterns, 5, fullText, TRUE)
          /\ Attempts[k].data.electricSupplyCharges
                = ValueOfRule(aceElectricPatterns, 1, fullText, TRUE)

\* C11: every field of the result of an extraction is a non-empty string, the
\* provider's sentinel or null: no field is ever the empty string, also when
\* the label of the account number is followed by whitespace only.
C11_NoEmptyField ==
    \A k \in DOMAIN Attempts :
        \A f \in DOMAIN Attempts[k].data : Attempts[k].data[f] # <<>>


\* the fields every provider returns
ResultFields ==
    {"serviceAddress", "accountNumber", "gasSupplyCharges", "electricSupplyCharges",
     "totalUsageKwh"}

\* what a provider returns when nothing matches
NothingMatched(id, data) ==
    /\ data.serviceAddress = NULL
    /\ data.accountNumber = NULL
    /\ data.electricSupplyCharges = NULL
    /\ data.totalUsageKwh = NULL
    /\ data.gasSupplyCharges = IF id = aceId THEN ACE_GAS_SENTINEL ELSE NULL

\* C12: no call of a provider's extractData throws, whatever the text and the
\* page list (an empty list and text matching no rule included): every call
\* returns a record with all the fields of a result, all of them null (the ACE
\* sentinel apart) when the document has no page, and no file of a batch
\* fails with a TypeError.
C12_NeverRaises ==
    /\ error # TypeError
    /\ \A k \in DOMAIN errorList : errorList[k].error # TypeError
    /\ \A k \in DOMAIN Attempts :
          LET data == Attempts[k].data
          IN /\ ~Threw(data)
             /\ ResultFields \subseteq DOMAIN data
             /\ \A f \in ResultFields : data[f] \notin {UNDEFINED, TypeError}
             /\ (~Idle /\ pages = <<>>) => NothingMatched(Attempts[k].id, data)

\* a file without pages went through both providers and gave a row
C12_Witness ==
    /\ pc = "done"
    /\ pages = <<>>
    /\ fullText = <<>>
    /\ Len(Attempts) = 2
    /\ row.FileName = Name(1)
    /\ row.Provider = NULL

\* C13: a definition whose id is already registered is refused and the
\* definition registered under that id stays: no step of the registration
\* replaces, moves or drops an entry of the registry.
C13_NoSilentOverwrite ==
    [][\A p \in DOMAIN registry : p \in DOMAIN registry' /\ registry'[p] = registry[p]]_vars

\* C14: the registry is read-only after initialization: in every state the
\* page can reach, whatever was detected, extracted or processed, it lists
\* the definition of ace and then the definition of pseg, and nothing else.
C14_RegistryReadOnly ==
    /\ [p \in DOMAIN registry |-> registry[p].id] = <<aceId, psegId>>
    /\ registry = <<aceProvider, psegProvider>>

\* a batch of a file that went through the detector, the target and the
\* fallback loop has ended
C14_Witness ==
    /\ pc = "complete"
    /\ Len(results) = 1
    /\ Len(Detections) = 1
    /\ Len(Attempts) = 2
    /\ registry = PROVIDERS

\* the names of the files the log says were handed to extractFromPDF, in order
Processed ==
    LET marks == SelectSeq(debugLogs, LAMBDA e : e.op = "file")
    IN [k \in DOMAIN marks |-> marks[k].name]

\* the names of the files of the list, in order
FileNames == [k \in DOMAIN files |-> files[k].name]

\* the files that failed: PDF.js rejected them
Failing == SelectSeq(files, LAMBDA file : ~file.content.readable)

\* C15: a batch goes on after a failure: when it ends every file of the list
\* has been processed exactly once and in list order, each failing file has its
\* entry, with its name, in the error list, each other file has its row, and
\* rows and error entries together are as many as the files.
C15_BatchContinues ==
    pc = "complete" =>
        /\ Processed = FileNames
        /\ Len(results) + Len(errors) = Len(files)
        /\ [k \in DOMAIN errors |-> errors[k].fileName]
              = [k \in DOMAIN Failing |-> Failing[k].name]
        /\ \A k \in DOMAIN files :
              files[k].content.readable =>
                  \E r \in DOMAIN results : results[r].FileName = files[k].name

\* a batch of three files whose first file failed has ended with two rows
C15_Witness ==
    /\ pc = "complete"
    /\ Len(files) = 3
    /\ ~files[1].content.readable
    /\ Len(errors) = 1
    /\ errors[1].fileName = Name(1)
    /\ Len(results) = 2
    /\ results[1].FileName = Name(2)
    /\ results[2].FileName = Name(3)

\* C16: progress is reported after each file of a batch: once the i-th of n
\* files has been handled, whether it gave a row or an error, progress is
\* round(100 * i / n), and it is 100 when the batch has ended.
C16_ProgressAfterEachFile ==
    /\ pc = "next" => progress = Progress(fileIndex, Len(files))
    /\ pc = "complete" => progress = 100

\* C17: the log sink does not affect extraction: for the same text and pages
\* a provider's extractData, and the detector, give the same outcome with
\* the component's sink, with a sink that does nothing and with no sink.
C17_SinkDoesNotMatter ==
    pc \in {"extracted", "detected"} =>
        \A addLog \in Sinks : outcomes[addLog] = outcomes[ADD_LOG]

\* the content of the file of a name
ContentOf(name) == files[CHOOSE k \in DOMAIN files : files[k].name = name].content

\* a row without the name of its file
Fields(r) == [r EXCEPT !.FileName = <<>>]

\* what was logged for the k-th file of the batch
LogsOfFile(k) ==
    LET start == CHOOSE p \in FileMarks : debugLogs[p].name = files[k].name
        later == {p \in FileMarks : p > start}
    IN SubSeq(debugLogs, start + 1, IF later = {} THEN Len(debugLogs) ELSE Min(later) - 1)

\* the files of the batch whose processing has ended
Handled ==
    {k \in DOMAIN files :
        \E p \in FileMarks :
            /\ debugLogs[p].name = files[k].name
            /\ p < Max(FileMarks) \/ pc \in {"next", "complete"}}

SameRows(rows) ==
    \A a, b \in DOMAIN rows :
        ContentOf(rows[a].FileName) = ContentOf(rows[b].FileName)
            => Fields(rows[a]) = Fields(rows[b])

\* C18: detection, extraction and resolution are functions of the text, the
\* pages and the preferred id alone: two files of a batch with the same
\* content get the same row and the same detections and attempts, whatever
\* files were processed before them or between them.
C18_Deterministic ==
    /\ SameRows(extractedRows)
    /\ SameRows(results)
    /\ debugLogs # <<>> =>
          \A a, b \in Handled :
              files[a].content = files[b].content => LogsOfFile(a) = LogsOfFile(b)

\* a batch has ended whose first and third file have the same content, with a
\* file of another provider's bill between them
C18_Witness ==
    /\ pc = "complete"
    /\ Len(files) = 3
    /\ files[1].content = Readable(<<NoDataText>>)
    /\ files[2].content = Readable(<<AceBillText>>)
    /\ files[3].content = files[1].content
    /\ Len(results) = 3
    /\ results[2].Provider = aceName
    /\ results[3].Provider = NULL
    /\ Len(LogsOfFile(1)) = 3

\* the characters of s that are no thousands separators, by selection
WithoutSeparators(s) == SelectSeq(s, LAMBDA c : c # ",")

\* digits, a point and two digits
IsPlainAmount(s) ==
    /\ Len(s) >= 3
    /\ s[Len(s) - 2] = "."
    /\ \A i \in DOMAIN s : i # Len(s) - 2 => s[i] \in Digit

\* text holds a literal of digits and separators, a point and two digits
\* that is s once its separators are left out
IsLiteralOf(s, text) ==
    \E p \in DOMAIN text :
        /\ text[p] = "."
        /\ p + 2 <= Len(text)
        /\ \E n \in 0..Len(s) :
              /\ p + 3 - Len(s) - n >= 1
              /\ WithoutSeparators(SubSeq(text, p + 3 - Len(s) - n, p + 2)) = s

\* the charge fields of a provider
ChargeFields(id) ==
    IF id = aceId THEN {"electricSupplyCharges"}
    ELSE {"electricSupplyCharges", "gasSupplyCharges"}

\* C19: a charge a provider returns is the amount literal of the text with
\* its thousands separators removed and nothing else changed: digits, a
\* point and two decimals, without comma and without currency symbol; the
\* text "Electric supply charges - AEP Energy, Inc. $6,882.85" gives the
\* PSE&G electric charge "6882.85".
C19_CurrencyTextual ==
    pc = "return" =>
        \A k \in DOMAIN Attempts :
            LET data == Attempts[k].data
            IN /\ \A f \in ChargeFields(Attempts[k].id) :
                      data[f] # NULL =>
                          /\ IsPlainAmount(data[f])
                          /\ IsLiteralOf(data[f], fullText)
               /\ (Attempts[k].id = psegId /\ Len(pages) = 1
                       /\ Test(<<Lit(<<"I","n","c","."," ","$","6",",","8","8","2",".","8","5">>)>>, pages[1]))
                     => data.electricSupplyCharges = <<"6","8","8","2",".","8","5">>

\* the PSE&G bill with "$6,882.85" after the label of the third-party
\* electric supply gave the electric charge 6882.85
C19_Witness ==
    /\ pc = "return"
    /\ Len(pages) = 1
    /\ Test(<<Lit(<<"E","l","e","c","t","r","i","c"," ","s","u","p","p","l","y"," ","c","h","a","r","g","e","s"," ","-"," ","A","E","P"," ","E","n","e","r","g","y",","," ","I","n","c","."," ","$","6",",","8","8","2",".","8","5">>)>>, pages[1])
    /\ providerName = psegName
    /\ result.electricSupplyCharges = <<"6","8","8","2",".","8","5">>

\* the label "Account number", an optional colon, and digits with the
\* whitespace between them: /Account\s*number\s*[:\s]*(\d[\d\s]*)/i
AccountLabel ==
    <<Lit(<<"A","c","c","o","u","n","t">>), Star(Space), Lit(<<"n","u","m","b","e","r">>), Star(Space), Star({":"} \cup Space),
      Open(1), Rep(Digit, 1, 1), Star(Digit \cup Space), Close(1)>>

\* C20: the PSE&G provider extracts the account number: when the first page
\* has the label "Account number" followed by digits, the accountNumber it
\* returns is these digits without their whitespace, not null, and the
\* extraction counts as successful also without a service address.
C20_PsegAccountNumber ==
    pc = "return" =>
        \A k \in DOMAIN Attempts :
            (Attempts[k].id = psegId /\ pages # <<>> /\ Test(AccountLabel, pages[1])) =>
                /\ Attempts[k].data.accountNumber
                      = RemoveWhitespace(Group(pages[1], Search(AccountLabel, pages[1]), 1))
                /\ HasData(Attempts[k].data)

\* the row of the results a row of the sheet was made of
SourceRow(k) == results[k]

\* C21: the export keeps absence and sentinel apart: in every exported row
\* a value that is null, undefined or empty in the results is "Not Found",
\* and every other value, the sentinel "ACE Doesn't Supply Gas" included,
\* is the value of the results, never "Not Found".
C21_NotFoundOnlyForAbsent ==
    worksheet # <<>> =>
        /\ Len(worksheet) = Len(results)
        /\ \A k \in DOMAIN worksheet :
              \A key \in DOMAIN worksheet[k] :
                  LET value == SourceRow(k)[key]
                  IN IF value = NULL \/ value = UNDEFINED \/ Len(value) = 0
                     THEN worksheet[k][key] = NOT_FOUND
                     ELSE worksheet[k][key] = value /\ value # NOT_FOUND
        /\ \A k \in DOMAIN worksheet :
              results[k].TotalGasSupplyCharges = ACE_GAS_SENTINEL
                  => \/ "TotalGasSupplyCharges" \notin DOMAIN worksheet[k]
                     \/ worksheet[k].TotalGasSupplyCharges = ACE_GAS_SENTINEL

\* an ACE row without address was exported: the address is "Not Found", the
\* gas column holds the sentinel
C21_Witness ==
    /\ Len(worksheet) = 1
    /\ results[1].ServiceAddress = NULL
    /\ worksheet[1].ServiceAddress = NOT_FOUND
    /\ "TotalGasSupplyCharges" \in DOMAIN worksheet[1]
    /\ worksheet[1].TotalGasSupplyCharges = ACE_GAS_SENTINEL
    /\ worksheet[1].Provider = aceName

(***************************************************************************)
(* The handlers of the file list while a batch is running: the file input, *)
(* the drop zone, the remove buttons and "Clear all" are not disabled      *)
(***************************************************************************)
\* the files selected when the batch is started: a bill, a file that PDF.js
\* rejects
RaceFiles == Named(<<Readable(<<AceBillText>>), Unreadable>>, 0)

FileNamesOf(list) == {list[k].name : k \in DOMAIN list}

\* the name of a file selected during the batch: one that no listed file and
\* no file of the batch has
FreshName ==
    Name(CHOOSE k \in 1..(2 * MaxFiles + 1) :
            /\ Name(k) \notin FileNamesOf(files) \cup FileNamesOf(batchFiles)
            /\ \A j \in 1..(k - 1) : Name(j) \in FileNamesOf(files) \cup FileNamesOf(batchFiles))

RaceInit ==
    /\ registry = PROVIDERS
    /\ outcomes = <<>>
    /\ addresses = <<>>
    /\ worksheet = <<>>
    /\ utilityMode = AUTO
    /\ files = RaceFiles
    /\ processing = FALSE
    /\ progress = 0
    /\ results = <<>>
    /\ errors = <<>>
    /\ debugLogs = <<>>
    /\ pc = "ready"
    /\ mode = AUTO
    /\ batchFiles = <<>>
    /\ fileIndex = 0
    /\ extractedRows = <<>>
    /\ errorList = <<>>
    /\ error = NULL
    /\ fullText = <<>>
    /\ pages = <<>>
    /\ targetProviderId = NULL
    /\ result = InitialResult
    /\ providerName = NULL
    /\ loopIndex = 0
    /\ row = NoRow

\* addFiles(newFiles) while processPDFs is running: one more PDF file
addFilesWhileProcessing ==
    /\ processing
    /\ Len(files) < MaxFiles
    /\ files' = files \o PdfFiles(<<PdfFile(FreshName, Readable(<<NoDataText>>)), NotAPdf>>)
    /\ results' = <<>>
    /\ errors' = <<>>
    /\ progress' = 0
    /\ UNCHANGED <<registry, outcomes, addresses, worksheet,
                   utilityMode, processing, debugLogs, pc, mode, batchFiles, fileIndex,
                   extractedRows, errorList, error, locals>>

\* removeFile(index) while processPDFs is running
removeFile(index) ==
    /\ processing
    /\ files' = [k \in 1..(Len(files) - 1) |-> IF k < index THEN files[k] ELSE files[k + 1]]
    /\ UNCHANGED <<registry, outcomes, addresses, worksheet,
                   utilityMode, processing, progress, results, errors, debugLogs,
                   pc, mode, batchFiles, fileIndex, extractedRows, errorList, error, locals>>

\* clearAllFiles() while processPDFs is running
clearAllFilesWhileProcessing ==
    /\ processing
    /\ files' = <<>>
    /\ results' = <<>>
    /\ errors' = <<>>
    /\ progress' = 0
    /\ UNCHANGED <<registry, outcomes, addresses, worksheet,
                   utilityMode, processing, debugLogs, pc, mode, batchFiles, fileIndex,
                   extractedRows, errorList, error, locals>>

RaceNext ==
    \/ processPDFs
    \/ extractTextFromPDF
    \/ DetermineProvider
    \/ TryTargetProvider
    \/ CheckFallback
    \/ FallbackIteration
    \/ ReturnRow
    \/ RecordResult
    \/ RecordError
    \/ NextFile
    \/ FinishBatch
    \/ addFilesWhileProcessing
    \/ \E index \in DOMAIN files : removeFile(index)
    \/ clearAllFilesWhileProcessing

RaceSpec == RaceInit /\ [][RaceNext]_vars

(***************************************************************************)
(* Claims about normalizeAddress, checked under NormalizeSpec              *)
(***************************************************************************)
\* the k-th call: what it was given and what it returned
Given(k) == addresses[k]
Returned(k) == addresses[k + 1]
Calls == 1..(Len(addresses) - 1)
IsText(v) == \A i \in DOMAIN v : Len(v[i]) = 1

\* C22: normalizeAddress is total. Given null, undefined or the empty string
\* it returns null, and every call returns null or a text: none raises.
C22_TotalOnNothing ==
    \A k \in Calls :
        /\ Given(k) \in {NULL, UNDEFINED, <<>>} => Returned(k) = NULL
        /\ Returned(k) = NULL \/ IsText(Returned(k))

C22_Witness ==
    /\ Len(addresses) = 3
    /\ Given(1) = UNDEFINED
    /\ Returned(1) = NULL
    /\ Returned(2) = NULL

Contains(text, part) ==
    \E i \in 0..(Len(text) - Len(part)) : SubSeq(text, i + 1, i + Len(part)) = part

RECURSIVE PastSpaces(_, _)
PastSpaces(s, i) == IF i <= Len(s) /\ s[i] \in Space THEN PastSpaces(s, i + 1) ELSE i

DigitsAt(s, i, n) == i + n - 1 <= Len(s) /\ \A d \in 0..(n - 1) : s[i + d] \in Digit

\* a ZIP+4 code starting at position i of s, possibly split around its hyphen:
\* where its hyphen and its last four digits are, and its repaired form
HyphenOf(s, i) == PastSpaces(s, i + 5)
PlusFourOf(s, i) == PastSpaces(s, HyphenOf(s, i) + 1)
SplitZipAt(s, i) ==
    /\ DigitsAt(s, i, 5)
    /\ HyphenOf(s, i) <= Len(s)
    /\ s[HyphenOf(s, i)] = "-"
    /\ DigitsAt(s, PlusFourOf(s, i), 4)
Canonical(s, i) ==
    SubSeq(s, i, i + 4) \o <<"-">> \o SubSeq(s, PlusFourOf(s, i), PlusFourOf(s, i) + 3)

\* the occurrences a scan from the left takes: those that do not begin inside
\* an occurrence taken before
RECURSIVE Scanned(_, _)
Scanned(s, i) ==
    /\ SplitZipAt(s, i)
    /\ ~\E j \in 1..(i - 1) : Scanned(s, j) /\ PlusFourOf(s, j) + 3 >= i

TheExample == <<"1","2","3"," ","n"," ","j"," ","m","a","i","n"," ","s","t","r","e","e","t"," ","n","e","w","a","r","k"," ","n","j"," ","0","7","3","0","2","-"," ","6","4","7","5">>
ExampleRepaired(k) ==
    Given(k) = TheExample =>
        /\ Contains(Returned(k), <<"0","7","3","0","2","-","6","4","7","5">>)
        /\ ContainsWord(Returned(k), <<"N","J">>)

WholeWord(text, i, j) ==
    /\ 1 <= i /\ i <= j /\ j <= Len(text)
    /\ \A x \in i..j : text[x] \in WordChar
    /\ ~IsWordAt(text, i - 1)
    /\ ~IsWordAt(text, j + 1)

StatesAndDirections ==
    {<<"n","j">>, <<"n","y">>, <<"p","a">>, <<"c","t">>, <<"m","a">>, <<"n">>, <<"s">>, <<"e">>, <<"w">>, <<"n","e">>, <<"n","w">>, <<"s","e">>, <<"s","w">>}

\* C24: in every output that is not null, each whole word that is, whatever
\* its case, a state abbreviation (NJ, NY, PA, CT, MA) or a direction (N, S, E,
\* W, NE, NW, SE, SW) is fully uppercase.
C24_AbbreviationsUppercase ==
    \A k \in Calls :
        Returned(k) # NULL =>
            \A i \in DOMAIN Returned(k) : \A j \in {i, i + 1} :
                (/\ j <= Len(Returned(k))
                 /\ WholeWord(Returned(k), i, j)
                 /\ LowerCase(SubSeq(Returned(k), i, j)) \in StatesAndDirections)
                    => SubSeq(Returned(k), i, j) = UpperCase(SubSeq(Returned(k), i, j))

C24_Witness ==
    /\ Len(addresses) >= 2
    /\ Given(1) = TheExample
    /\ ContainsWord(Given(1), <<"n","j">>)
    /\ ContainsWord(Given(1), <<"n">>)
    /\ ContainsWord(Returned(1), <<"N","J">>)
    /\ ContainsWord(Returned(1), <<"N">>)
    /\ ~ContainsWord(Returned(1), <<"N","j">>)

\* a state code split in two at position i of a text: two single uppercase
\* letters, each a whole word, with only whitespace between them
StateCodes == {<<"N","J">>, <<"N","Y">>, <<"P","A">>, <<"C","T">>, <<"M","A">>}
SplitCodeAt(text, i) ==
    /\ WholeWord(text, i, i)
    /\ text[i] \in Upper
    /\ PastSpaces(text, i + 1) > i + 1
    /\ WholeWord(text, PastSpaces(text, i + 1), PastSpaces(text, i + 1))
    /\ <<text[i], text[PastSpaces(text, i + 1)]>> \in StateCodes
JoinedCode(text, i) == <<text[i], text[PastSpaces(text, i + 1)]>>

\* C25: when the input contains a state code split into two single uppercase
\* letters separated by whitespace ("N J"), the output contains the two
\* letters joined as one uppercase word ("NJ").
C25_SplitStateCodeJoined ==
    \A k \in Calls :
        \A i \in DOMAIN Given(k) :
            (IsText(Given(k)) /\ SplitCodeAt(Given(k), i))
                => ContainsWord(Returned(k), JoinedCode(Given(k), i))

\* C26: in every output that is not null no digit is immediately next to a
\* letter, on either side.
C26_DigitsApartFromLetters ==
    \A k \in Calls :
        Returned(k) # NULL =>
            \A i \in 1..(Len(Returned(k)) - 1) :
                /\ ~(Returned(k)[i] \in Digit /\ Returned(k)[i + 1] \in Letter)
                /\ ~(Returned(k)[i] \in Letter /\ Returned(k)[i + 1] \in Digit)

C26_Witness ==
    /\ Len(addresses) >= 2
    /\ Given(1) = <<"M","a">> \o <<"1","2","a">>
    /\ Returned(1) = <<"M","A"," ","1","2"," ","A">>

\* two single capital letters next to each other, each a word of its own:
\* what the first step of normalizeAddress joins
AdjacentSingles(text) ==
    \E i \in DOMAIN text :
        /\ WholeWord(text, i, i)
        /\ text[i] \in Upper
        /\ PastSpaces(text, i + 1) > i + 1
        /\ WholeWord(text, PastSpaces(text, i + 1), PastSpaces(text, i + 1))
        /\ text[PastSpaces(text, i + 1)] \in Upper

\* C27 as stated: normalize(normalize(a)) = normalize(a) for every input, also
\* when normalize(a) still has two adjacent single-letter words such as "N J".
C27_Idempotent ==
    \A k \in Calls : k + 1 \in Calls => Returned(k + 1) = Returned(k)

\* C27 amended: normalize(normalize(a)) = normalize(a) whenever normalize(a)
\* is null or a text that is not empty and has no two adjacent single-letter
\* words; and a third application never changes what the second returned.
C27_IdempotentOnceJoined ==
    \A k \in Calls :
        k + 1 \in Calls =>
            /\ (Returned(k) = NULL \/ (Returned(k) # <<>> /\ ~AdjacentSingles(Returned(k))))
                   => Returned(k + 1) = Returned(k)
            /\ k > 1 => Returned(k + 1) = Returned(k)

C27_Witness ==
    /\ Len(addresses) = 3
    /\ Given(1) = <<"0","7","3","0","2","-"," ","6","4","7","5">> \o <<"M","a","i","n"," ","s","t">>
    /\ Returned(1) = <<"0","7","3","0","2","-","6","4","7","5"," ","M","a","i","n"," ","S","t">>
    /\ Returned(2) = Returned(1)

\* C28: for one document each registered provider's extraction is called at
\* most once; the detected or selected provider, tried first, is not called
\* again by the fallback loop, whether its attempt succeeded or failed, and
\* when the selected id is not registered every provider is still called at
\* most once.
C28_EachProviderAtMostOnce ==
    /\ \A i \in DOMAIN Attempts : \A j \in DOMAIN Attempts :
           i < j => Attempts[i].id # Attempts[j].id
    /\ (pc \in {"loop", "return", "done"} /\ targetProviderId \in ProviderIds) =>
           /\ Len(Attempts) >= 1
           /\ Attempts[1].id = targetProviderId
           /\ \A j \in 2..Len(Attempts) : Attempts[j].id # targetProviderId
    /\ (pc = "done" /\ mode = unregisteredId) =>
           /\ targetProviderId = unregisteredId
           /\ \A k \in DOMAIN Attempts : Attempts[k].id = RegisteredIds[k]

C28_Witness ==
    /\ pc = "done"
    /\ mode = psegId
    /\ targetProviderId = psegId
    /\ Len(Attempts) = 2
    /\ Attempts[1].id = psegId
    /\ ~Succeeded(Attempts[1].data)
    /\ Attempts[2].id = aceId
    /\ ~Succeeded(Attempts[2].data)
    /\ providerName = NULL

\* C29: with an empty page list extractFromPDF returns a null provider name
\* and every field null (the usage field absent), whatever the full text and
\* the selected provider: account number and address are read from the first
\* page only, so no attempt succeeds whatever charges the text holds.
C29_NoPagesNoData ==
    (pc = "done" /\ pages = <<>>) =>
        /\ providerName = NULL
        /\ result = InitialResult
        /\ row.Provider = NULL
        /\ row.AccountNumber = NULL
        /\ row.ServiceAddress = NULL
        /\ row.TotalGasSupplyCharges = NULL
        /\ row.TotalElectricSupplyCharges = NULL
        /\ row.TotalUsageKwh \in {NULL, UNDEFINED}
        /\ \A k \in DOMAIN Attempts : ~Succeeded(Attempts[k].data)

C29_Witness ==
    /\ pc = "done"
    /\ pages = <<>>
    /\ fullText = JoinPages(<<AceBillText>>)
    /\ mode = psegId
    /\ Len(Attempts) = 2
    /\ Attempts[2].id = aceId
    /\ Present(Attempts[2].data.electricSupplyCharges)
    /\ row.Provider = NULL
    /\ row.TotalElectricSupplyCharges = NULL

\* the files an outcome of the batch names: a row of results or an entry of errors
OutcomesOf(name) ==
    Cardinality({k \in DOMAIN results : results[k].FileName = name}) +
    Cardinality({k \in DOMAIN errors : errors[k].fileName = name})

\* C30: adding files, removing a file or clearing the list while a batch runs
\* does not desynchronize the outcome from the file list: when the batch has
\* finished, results and errors together hold exactly one entry for each file
\* of the current list and none for a file that is not in it.
C30_OutcomeMatchesFileList ==
    pc = "complete" =>
        /\ \A k \in DOMAIN files : OutcomesOf(files[k].name) = 1
        /\ \A k \in DOMAIN results : results[k].FileName \in FileNamesOf(files)
        /\ \A k \in DOMAIN errors : errors[k].fileName \in FileNamesOf(files)
=============================================================================
